---- MODULE Spec2Model ----
(***************************************************************************)
(* Model of the dataset curation pipeline of training/scripts/             *)
(* prepare_data.py: text normalisation, ChatML validation, content-hash    *)
(* deduplication, the seeded train/validation split and the main() driver. *)
(***************************************************************************)
EXTENDS Integers, Sequences, FiniteSets, TLC

VARIABLES
    sp_examples,   \* split_data: the `examples` argument (both executions)
    sp_ratio,      \* split_data: train_ratio, as a numerator over RatioDen
    sp_seed,       \* split_data: the `seed` argument (both executions)
    sp_run,        \* which of the two executions of split_data is running
    sp_pc,         \* position inside the running execution
    sp_entropy,    \* operating-system entropy available to each execution
    sp_rng,        \* state of `rng`
    sp_shuffled,   \* the local list `shuffled`
    sp_i,          \* loop index of random.shuffle
    sp_out,        \* sp_out[k]: the pair returned by execution k
    d_examples,    \* deduplicate: the `examples` argument
    d_pc,          \* deduplicate: position in the function
    d_k,           \* deduplicate: 1-based position of the loop
    d_seen,        \* deduplicate: the set `seen`
    d_unique,      \* deduplicate: the list `unique`
    d_kept,        \* input positions of the objects appended to `unique`
    v_example,     \* validate_chatml: the `example` argument
    v_pc,          \* number of calls of validate_chatml made on v_example
    v_result,      \* v_result[k]: list returned / exception raised by call k
    v_outcome,     \* what the line loop of load_jsonl_dir does with v_example
    pc,            \* main: position of the run
    exit_code,     \* main: exit status of the process, -1 while it runs
    out_dir,       \* whether the output directory exists
    l_pc,          \* load_jsonl_dir: position inside the call
    l_files,       \* load_jsonl_dir: number of files opened so far
    l_lines,       \* load_jsonl_dir: lines read from the current file
    l_examples,    \* load_jsonl_dir: the list `examples`
    l_file_count,  \* load_jsonl_dir: file_count of the current file
    l_good,        \* lines of this directory that parsed and validated
    total_lines,   \* lines read during the run
    parse_errors,  \* logged JSON parse errors
    rejected,      \* records logged with validation errors
    seed_data,     \* main: seed_data
    feedback_data, \* main: feedback_data
    all_examples,  \* main: all_examples
    train_data,    \* main: train_data
    val_data,      \* main: val_data
    stats,         \* main: stats
    train_file,    \* the file train.jsonl of the output directory
    val_file,      \* the file val.jsonl of the output directory
    train_split,   \* main: args.train_split, as a numerator over RatioDen
    dir_status,    \* per source: "pending", "missing" or "read" once loaded
    n_text,        \* normalize_text: the `text` argument
    n_pc,          \* number of applications of normalize_text made
    n_once,        \* normalize_text(text)
    n_twice,       \* normalize_text(normalize_text(text))
    e_row,         \* convert_feedback_to_chatml: the `row` argument
    e_pc,          \* position in the row loop of export_from_database
    e_example,     \* the value convert_feedback_to_chatml returned
    e_result,      \* validate_chatml applied to the exported example
    r_lines,       \* two runs of main: the input lines, the same for both
    r_run,         \* which of the two runs is executing
    r_pc,          \* position of the executing run
    r_loaded,      \* r_loaded[k]: all_examples of run k after loading
    r_unique,      \* r_unique[k]: all_examples of run k after deduplicate
    r_train,       \* r_train[k]: train_data of run k
    r_val,         \* r_val[k]: val_data of run k
    r_stats,       \* r_stats[k]: stats of run k
    r_files,       \* r_files[k]: the lines of train.jsonl and val.jsonl
    o_pc,          \* loading order: position of main
    o_lpc,         \* loading order: position inside load_jsonl_dir
    o_listing,     \* the files of jsonl_files not yet opened
    o_file,        \* name of the file being read
    o_lineno,      \* line_num of the last line read from it
    o_total,       \* lines read during the run
    o_examples,    \* load_jsonl_dir: the list `examples`
    o_origin,      \* for each of them: source, file name and line number
    o_all,         \* main: all_examples
    o_all_origin,  \* source, file name and line number of each of them
    c_messages,    \* detect_task_type: the `messages` argument
    c_text,        \* detect_language: the words of the `text` argument
    c_pc,          \* whether the classifier has returned
    c_result       \* the tag it returned

splitVars == <<sp_examples, sp_ratio, sp_seed, sp_run, sp_pc, sp_entropy,
               sp_rng, sp_shuffled, sp_i, sp_out>>

dedupVars == <<d_examples, d_pc, d_k, d_seen, d_unique, d_kept>>

validateVars == <<v_example, v_pc, v_result, v_outcome>>

loaderVars == <<l_pc, l_files, l_lines, l_examples, l_file_count, l_good,
                total_lines, parse_errors, rejected>>

mainVars == <<pc, exit_code, out_dir, seed_data, feedback_data, all_examples,
              train_data, val_data, stats, train_file, val_file, train_split>>

pipeVars == <<loaderVars, mainVars, dir_status>>

normVars == <<n_text, n_pc, n_once, n_twice>>

exportVars == <<e_row, e_pc, e_example, e_result>>

reportVars == <<r_lines, r_run, r_pc, r_loaded, r_unique, r_train, r_val,
                r_stats, r_files>>

classVars == <<c_messages, c_text, c_pc, c_result>>

orderVars == <<o_pc, o_lpc, o_listing, o_file, o_lineno, o_total, o_examples,
               o_origin, o_all, o_all_origin>>

nonSplitVars == <<dedupVars, validateVars, pipeVars, normVars, exportVars, reportVars, orderVars, classVars>>

nonDedupVars == <<splitVars, validateVars, pipeVars, normVars, exportVars, reportVars, orderVars, classVars>>

nonValidateVars == <<splitVars, dedupVars, pipeVars, normVars, exportVars, reportVars, orderVars, classVars>>

nonPipeVars == <<splitVars, dedupVars, validateVars, normVars, exportVars, reportVars, orderVars, classVars>>

nonNormVars == <<splitVars, dedupVars, validateVars, pipeVars, exportVars, reportVars, orderVars, classVars>>

nonExportVars == <<splitVars, dedupVars, validateVars, pipeVars, normVars, reportVars, orderVars, classVars>>

nonReportVars == <<splitVars, dedupVars, validateVars, pipeVars, normVars, exportVars, orderVars, classVars>>

nonOrderVars == <<splitVars, dedupVars, validateVars, pipeVars, normVars, exportVars, reportVars, classVars>>

nonClassVars == <<splitVars, dedupVars, validateVars, pipeVars, normVars, exportVars, reportVars, orderVars>>

vars == <<sp_examples, sp_ratio, sp_seed, sp_run, sp_pc, sp_entropy,
          sp_rng, sp_shuffled, sp_i, sp_out,
          d_examples, d_pc, d_k, d_seen, d_unique, d_kept,
          v_example, v_pc, v_result, v_outcome,
          pc, exit_code, out_dir, l_pc, l_files, l_lines, l_examples,
          l_file_count, l_good, total_lines, parse_errors, rejected,
          seed_data, feedback_data, all_examples, train_data, val_data,
          stats, train_file, val_file, train_split, dir_status,
          n_text, n_pc, n_once, n_twice,
          e_row, e_pc, e_example, e_result,
          r_lines, r_run, r_pc, r_loaded, r_unique, r_train, r_val,
          r_stats, r_files,
          o_pc, o_lpc, o_listing, o_file, o_lineno, o_total, o_examples,
          o_origin, o_all, o_all_origin,
          c_messages, c_text, c_pc, c_result>>

(***************************************************************************)
(* Bounds of the model.                                                    *)
(***************************************************************************)
MaxSplitLen == 5       \* longest enumerated input of split_data
ScenarioLen == 100     \* the n = 100 scenario of the split-ratio property
MaxSeed == 1           \* seeds 0..MaxSeed besides the default seed
MaxEntropy == 1        \* entropy values 0..MaxEntropy

(***************************************************************************)
(* Program constants.                                                      *)
(***************************************************************************)
RatioDen == 10         \* train_ratio is modelled as ratio / RatioDen
DefaultTrainNum == 9   \* --train-split default 0.9
DefaultSeed == 42      \* split_data(..., seed = 42)

(***************************************************************************)
(* Generic sequence helpers.                                               *)
(***************************************************************************)
Min(a, b) == IF a < b THEN a ELSE b

Max(a, b) == IF a > b THEN a ELSE b

\* Python slice s[lo:hi] over 0-based positions, lo and hi within 0..Len(s).
Slice(s, lo, hi) == [k \in 1..Max(0, hi - lo) |-> s[lo + k]]

Range(s) == {s[k] : k \in DOMAIN s}

RECURSIVE Rep(_, _)
\* the string c * n
Rep(c, n) == IF n <= 0 THEN <<>> ELSE <<c>> \o Rep(c, n - 1)

(***************************************************************************)
(* Text.  A string is a sequence of characters.  The alphabet has plain    *)
(* letters, a base letter "e" with a combining mark "^" that NFC composes  *)
(* into the single character "E", horizontal whitespace (space, tab), the  *)
(* newline and the pipe used as the hash delimiter.                        *)
(***************************************************************************)
Chars == {"a", "b", "e", "^", "E", " ", "\t", "\n", "|"}

IsHSpace(c) == c \in {" ", "\t"}

\* str.isspace / the regex class \s
IsSpace(c) == c \in {" ", "\t", "\n"}

RECURSIVE NFC(_)
\* unicodedata.normalize("NFC", text): canonical composition
NFC(s) ==
    IF Len(s) < 2 THEN s
    ELSE IF s[1] = "e" /\ s[2] = "^"
         THEN <<"E">> \o NFC(SubSeq(s, 3, Len(s)))
         ELSE <<s[1]>> \o NFC(Tail(s))

RECURSIVE DropWhileHSpace(_)
DropWhileHSpace(s) ==
    IF s # <<>> /\ IsHSpace(s[1]) THEN DropWhileHSpace(Tail(s)) ELSE s

RECURSIVE CollapseHSpace(_)
\* re.sub(r"[^\S\n]+", " ", text)
CollapseHSpace(s) ==
    IF s = <<>> THEN <<>>
    ELSE IF IsHSpace(s[1])
         THEN <<" ">> \o CollapseHSpace(DropWhileHSpace(s))
         ELSE <<s[1]>> \o CollapseHSpace(Tail(s))

RECURSIVE LeadingNewlines(_)
LeadingNewlines(s) ==
    IF s # <<>> /\ s[1] = "\n" THEN 1 + LeadingNewlines(Tail(s)) ELSE 0

RECURSIVE CollapseNewlinesExactlyThree(_)
\* The pattern without the comma of the quantifier: \n{3}.
CollapseNewlinesExactlyThree(s) ==
    IF s = <<>> THEN <<>>
    ELSE IF LeadingNewlines(s) >= 3
         THEN <<"\n", "\n">> \o CollapseNewlinesExactlyThree(SubSeq(s, 4, Len(s)))
         ELSE <<s[1]>> \o CollapseNewlinesExactlyThree(Tail(s))

RECURSIVE CollapseNewlines(_)
\* re.sub(r"\n{3,}", "\n\n", text)
CollapseNewlines(s) ==
    IF s = <<>> THEN <<>>
    ELSE LET k == LeadingNewlines(s)
         IN  IF k >= 3
             THEN <<"\n", "\n">> \o CollapseNewlines(SubSeq(s, k + 1, Len(s)))
             ELSE IF k >= 1
                  THEN Rep("\n", k) \o CollapseNewlines(SubSeq(s, k + 1, Len(s)))
                  ELSE <<s[1]>> \o CollapseNewlines(Tail(s))

RECURSIVE LStrip(_)
LStrip(s) == IF s # <<>> /\ IsSpace(s[1]) THEN LStrip(Tail(s)) ELSE s

RECURSIVE RStrip(_)
RStrip(s) ==
    IF s # <<>> /\ IsSpace(s[Len(s)]) THEN RStrip(SubSeq(s, 1, Len(s) - 1))
    ELSE s

\* A strip of the leading whitespace only.
StripLeadingOnly(s) == LStrip(s)

\* str.strip()
Strip(s) == RStrip(LStrip(s))

\* normalize_text(text)
normalize_text(text) == Strip(CollapseNewlines(CollapseHSpace(NFC(text))))

(***************************************************************************)
(* Parsed JSON values, as far as validate_chatml inspects them.  Every     *)
(* value carries its JSON type t ("obj", "arr", "str", "num", "bool",      *)
(* "null").  A role value keeps its text, a content value its characters   *)
(* (strings) or its number of elements (arrays and objects).               *)
(***************************************************************************)
JsonTypes == {"obj", "arr", "str", "num", "bool", "null"}

VALID_ROLES == {"system", "user", "assistant"}

MinAssistantLen == 20

RoleVal(t, s) == [t |-> t, s |-> s]

StrRole(s) == RoleVal("str", s)

NoRole == RoleVal("null", "None")

ContentVal(t, s, n) == [t |-> t, s |-> s, n |-> n]

StrContent(s) == ContentVal("str", s, Len(s))

NoContent == ContentVal("null", <<>>, 0)

\* an entry of the messages list; has_role / has_content: key present
Entry(t, has_role, role, has_content, content) ==
    [t |-> t, has_role |-> has_role, role |-> role,
     has_content |-> has_content, content |-> content]

\* {"role": role, "content": content} with string values
Msg(role, content) == Entry("obj", TRUE, StrRole(role), TRUE, StrContent(content))

\* an entry that is no object, e.g. a bare string
NonDictEntry(t) == Entry(t, FALSE, NoRole, FALSE, NoContent)

MessagesVal(t, items) == [t |-> t, items |-> items]

\* has_messages: the value of the Python expression `"messages" in example`
\* (key of an object, element of an array, substring of a string)
ExampleVal(t, has_messages, messages) ==
    [t |-> t, has_messages |-> has_messages, messages |-> messages]

\* {"messages": [...]}
Example(items) == ExampleVal("obj", TRUE, MessagesVal("arr", items))

\* m.get("role")
GetRole(m) == IF m.has_role THEN m.role ELSE NoRole

\* m.get("content", "")
GetContent(m) == IF m.has_content THEN m.content ELSE StrContent(<<>>)

\* m.get("role") == "assistant"
IsAssistant(m) == GetRole(m).t = "str" /\ GetRole(m).s = "assistant"

\* len(x) is defined on strings, arrays and objects only
HasLen(c) == c.t \in {"str", "arr", "obj"}

\* unhashable values cannot be looked up in the set VALID_ROLES
Hashable(r) == r.t \notin {"arr", "obj"}

(***************************************************************************)
(* validate_chatml.  The result is the list of errors, or the exception    *)
(* that escapes the function (raised # "none").  An error keeps what its   *)
(* message interpolates besides source and line: the message index i, a    *)
(* count n and the role text.                                              *)
(***************************************************************************)
Err(code, i, n, role) == [code |-> code, i |-> i, n |-> n, role |-> role]

Ok(errors) == [raised |-> "none", errors |-> errors]

Raise(exc) == [raised |-> exc, errors |-> <<>>]

\* body of `for i, msg in enumerate(messages)` for one entry (i is 0-based)
CheckEntry(msg, i) ==
    IF msg.t # "obj" THEN Ok(<<Err("not_a_dict", i, 0, "")>>)
    ELSE IF msg.has_role /\ ~Hashable(msg.role) THEN Raise("TypeError")
    ELSE Ok(
        (IF ~msg.has_role THEN <<Err("missing_role", i, 0, "")>>
         ELSE IF ~(msg.role.t = "str" /\ msg.role.s \in VALID_ROLES)
              THEN <<Err("invalid_role", i, 0, msg.role.s)>>
              ELSE <<>>)
        \o
        (IF ~msg.has_content THEN <<Err("missing_content", i, 0, "")>>
         ELSE IF msg.content.t # "str" \/ Len(Strip(msg.content.s)) = 0
              THEN <<Err("empty_content", i, 0, "")>>
              ELSE <<>>))

RECURSIVE CheckEntries(_, _)
\* the loop over enumerate(messages), from the 1-based position k on
CheckEntries(items, k) ==
    IF k > Len(items) THEN Ok(<<>>)
    ELSE LET r == CheckEntry(items[k], k - 1)
         IN  IF r.raised # "none" THEN r
             ELSE LET rest == CheckEntries(items, k + 1)
                  IN  IF rest.raised # "none" THEN rest
                      ELSE Ok(r.errors \o rest.errors)

RECURSIVE AnyAssistant(_, _)
\* any(m.get("role") == "assistant" for m in messages): stops at the first
\* True; an entry without a get method raises AttributeError
AnyAssistant(items, k) ==
    IF k > Len(items) THEN [raised |-> "none", val |-> FALSE]
    ELSE IF items[k].t # "obj" THEN [raised |-> "AttributeError", val |-> FALSE]
    ELSE IF IsAssistant(items[k]) THEN [raised |-> "none", val |-> TRUE]
    ELSE AnyAssistant(items, k + 1)

RECURSIVE CheckAssistantLen(_, _)
\* the loop `for m in messages` of the minimum-length check
CheckAssistantLen(items, k) ==
    IF k > Len(items) THEN Ok(<<>>)
    ELSE IF items[k].t # "obj" THEN Raise("AttributeError")
    ELSE IF IsAssistant(items[k]) /\ ~HasLen(GetContent(items[k]))
         THEN Raise("TypeError")
    ELSE LET rest == CheckAssistantLen(items, k + 1)
             here == IF IsAssistant(items[k])
                        /\ GetContent(items[k]).n < MinAssistantLen
                     THEN <<Err("too_short", 0, GetContent(items[k]).n, "")>>
                     ELSE <<>>
         IN  IF rest.raised # "none" THEN rest ELSE Ok(here \o rest.errors)

\* A minimum of one message instead of two.
TooFewOffByOne(items) == Len(items) < 1

\* if len(messages) < 2
TooFew(items) == Len(items) < 2

\* validate_chatml(example, index, source)
validate_chatml(example) ==
    IF example.t \in {"num", "bool", "null"} THEN Raise("TypeError")
    ELSE IF ~example.has_messages THEN Ok(<<Err("missing_messages", 0, 0, "")>>)
    ELSE IF example.t # "obj" THEN Raise("TypeError")
    ELSE IF example.messages.t # "arr" THEN Ok(<<Err("not_a_list", 0, 0, "")>>)
    ELSE LET items == example.messages.items
         IN  IF TooFew(items) THEN Ok(<<Err("too_few", 0, Len(items), "")>>)
             ELSE LET e1 == CheckEntries(items, 1)
                      an == AnyAssistant(items, 1)
                      e3 == CheckAssistantLen(items, 1)
                  IN  IF e1.raised # "none" THEN e1
                      ELSE IF an.raised # "none" THEN Raise(an.raised)
                      ELSE IF e3.raised # "none" THEN e3
                      ELSE Ok(e1.errors
                              \o (IF an.val THEN <<>>
                                  ELSE <<Err("no_assistant", 0, 0, "")>>)
                              \o e3.errors)

(***************************************************************************)
(* content_hash and deduplicate.                                           *)
(***************************************************************************)
RECURSIVE Join(_, _)
\* sep.join(parts)
Join(parts, sep) ==
    IF parts = <<>> THEN <<>>
    ELSE IF Len(parts) = 1 THEN parts[1]
    ELSE parts[1] \o sep \o Join(Tail(parts), sep)

\* hashlib.sha256(data).hexdigest()[:16]: the digest is taken to be free of
\* collisions, so it is represented by the data it digests.
Sha256Prefix(data) == data

RECURSIVE HashParts(_, _)
\* the list `parts` built by the loop of content_hash over the given roles
HashParts(messages, roles) ==
    IF messages = <<>> THEN <<>>
    ELSE (IF messages[1].role.s \in roles
          THEN <<Strip(messages[1].content.s)>> ELSE <<>>)
         \o HashParts(Tail(messages), roles)

\* A hash that also covers the system prompt.
content_hash_all_roles(messages) ==
    Sha256Prefix(Join(HashParts(messages, VALID_ROLES), <<"|">>))

\* content_hash(messages)
content_hash(messages) ==
    Sha256Prefix(Join(HashParts(messages, {"user", "assistant"}), <<"|">>))

\* A loop body that appends but forgets seen.add(h).
DedupIterForgetful(examples, k, st) ==
    LET h == content_hash(examples[k].messages.items)
    IN  IF h \notin st.seen
        THEN [seen |-> st.seen,
              unique |-> Append(st.unique, examples[k]),
              kept |-> Append(st.kept, k)]
        ELSE st

\* body of `for ex in examples` in deduplicate, for the 1-based position k
DedupIter(examples, k, st) ==
    LET h == content_hash(examples[k].messages.items)
    IN  IF h \notin st.seen
        THEN [seen |-> st.seen \cup {h},
              unique |-> Append(st.unique, examples[k]),
              kept |-> Append(st.kept, k)]
        ELSE st

DedupStart == [seen |-> {}, unique |-> <<>>, kept |-> <<>>]

RECURSIVE DedupFrom(_, _, _)
DedupFrom(examples, k, st) ==
    IF k > Len(examples) THEN st
    ELSE DedupFrom(examples, k + 1, DedupIter(examples, k, st))

\* deduplicate(examples)
deduplicate(examples) == DedupFrom(examples, 1, DedupStart).unique

(***************************************************************************)
(* random.Random(seed) and random.shuffle.  The generator is a linear      *)
(* congruential one: what matters to split_data is that the stream is a    *)
(* function of the seed alone.                                             *)
(***************************************************************************)
RngMod == 32749

RngMul == 1229

RngInc == 1

\* A generator built without the seed draws its state from system entropy.
SeedRngFromEntropy(seed, entropy) == entropy % RngMod

\* rng = random.Random(seed)
SeedRng(seed, entropy) == seed % RngMod

RngNext(state) == (RngMul * state + RngInc) % RngMod

\* rng._randbelow(k) evaluated on the state already advanced
RandBelow(state, k) == state % k

Swap(s, a, b) == [s EXCEPT ![a] = s[b], ![b] = s[a]]

\* One iteration of random.shuffle's loop
\*     for i in reversed(range(1, len(x))): j = randbelow(i + 1); swap
\* i is the 0-based index of the code; returns the new list and rng state.
ShuffleIter(list, i, state) ==
    LET st == RngNext(state)
        j  == RandBelow(st, i + 1)
    IN  [list |-> Swap(list, i + 1, j + 1), rng |-> st]

RECURSIVE ShuffleFrom(_, _, _)
ShuffleFrom(list, i, state) ==
    IF i < 1 THEN list
    ELSE LET r == ShuffleIter(list, i, state)
         IN  ShuffleFrom(r.list, i - 1, r.rng)

\* rng.shuffle(shuffled)
Shuffle(list, state) == ShuffleFrom(list, Len(list) - 1, state)

\* An off-by-one in the split index: the floor is taken without the max.
SplitIdxNoMax(n, ratio) == (n * ratio) \div RatioDen

\* split_idx = max(1, int(len(shuffled) * train_ratio))
SplitIdx(n, ratio) == Max(1, (n * ratio) \div RatioDen)

\* A slicing slip: the validation slice starts one element too late.
SplitReturnSkipping(shuffled, ratio) ==
    LET k == SplitIdx(Len(shuffled), ratio)
    IN  <<Slice(shuffled, 0, Min(k, Len(shuffled))),
          Slice(shuffled, Min(k + 1, Len(shuffled)), Len(shuffled))>>

\* return shuffled[:split_idx], shuffled[split_idx:]
SplitReturn(shuffled, ratio) ==
    LET k == SplitIdx(Len(shuffled), ratio)
    IN  <<Slice(shuffled, 0, Min(k, Len(shuffled))),
          Slice(shuffled, Min(k, Len(shuffled)), Len(shuffled))>>

\* split_data as a function, for callers that run it in one step
split_data(examples, ratio, seed, entropy) ==
    SplitReturn(Shuffle(examples, SeedRng(seed, entropy)), ratio)

(***************************************************************************)
(* split_data as a step machine, executed twice in sequence on the same    *)
(* arguments.  The examples are identified by their input position.        *)
(***************************************************************************)
SplitLens == (1..MaxSplitLen) \cup {ScenarioLen}

Seeds == (0..MaxSeed) \cup {DefaultSeed}

NoOut == <<<<>>, <<>>>>

SplitIdle ==
    /\ sp_examples = <<>>
    /\ sp_ratio = DefaultTrainNum
    /\ sp_seed = DefaultSeed
    /\ sp_run = 0
    /\ sp_pc = "idle"
    /\ sp_entropy = 0
    /\ sp_rng = 0
    /\ sp_shuffled = <<>>
    /\ sp_i = 0
    /\ sp_out = [k \in 1..2 |-> NoOut]

DedupIdle ==
    /\ d_examples = <<>>
    /\ d_pc = "idle"
    /\ d_k = 0
    /\ d_seen = {}
    /\ d_unique = <<>>
    /\ d_kept = <<>>

ValidateIdle ==
    /\ v_example = ExampleVal("null", FALSE, MessagesVal("null", <<>>))
    /\ v_pc = "idle"
    /\ v_result = [k \in 1..2 |-> Ok(<<>>)]
    /\ v_outcome = "none"

\* train_path = output_dir / "train.jsonl"
TrainName == "train.jsonl"

\* val_path = output_dir / "val.jsonl"
ValName == "val.jsonl"

\* a path of the output directory that the run has not opened
NoFile == [name |-> "", state |-> "absent", lines |-> <<>>]

NoStats == [total |-> 0]

PipeStart ==
    /\ exit_code = -1
    /\ out_dir = FALSE
    /\ l_pc = "idle"
    /\ l_files = 0
    /\ l_lines = 0
    /\ l_examples = <<>>
    /\ l_file_count = 0
    /\ l_good = 0
    /\ total_lines = 0
    /\ parse_errors = 0
    /\ rejected = 0
    /\ seed_data = <<>>
    /\ feedback_data = <<>>
    /\ all_examples = <<>>
    /\ train_data = <<>>
    /\ val_data = <<>>
    /\ stats = NoStats
    /\ train_file = NoFile
    /\ val_file = NoFile
    /\ dir_status = [d \in {"seed", "feedback"} |-> "pending"]

PipeIdle ==
    /\ pc = "idle"
    /\ train_split = DefaultTrainNum
    /\ PipeStart

NormIdle ==
    /\ n_text = <<>>
    /\ n_pc = -1
    /\ n_once = <<>>
    /\ n_twice = <<>>

\* a text column of a row: None or a string
TextVal(t, s) == [t |-> t, s |-> s]

\* the inputContext column: None, a string, an object with some of the keys
\* the exporter reads (platforms a list or a string), or another JSON value
CtxVal(t, s, keys, platforms_list) ==
    [t |-> t, s |-> s, keys |-> keys, platforms_list |-> platforms_list]

Row(insightType, rating, originalOutput, editedOutput, inputContext) ==
    [insightType |-> insightType, rating |-> rating,
     originalOutput |-> originalOutput, editedOutput |-> editedOutput,
     inputContext |-> inputContext]

\* `return None`
None == [none |-> TRUE, ex |-> Example(<<>>)]

\* `return {"messages": [...]}`
Some(ex) == [none |-> FALSE, ex |-> ex]

\* the task-type and language tags the classifiers can give an example
TaskTypes == {"post_generation", "unknown"}

Languages == {"en", "unknown"}

\* no statistics yet: empty frequency tables
NoCounts == [total |-> 0, task_types |-> <<>>, languages |-> <<>>]

ReportStart ==
    /\ r_loaded = [k \in 1..2 |-> <<>>]
    /\ r_unique = [k \in 1..2 |-> <<>>]
    /\ r_train = [k \in 1..2 |-> <<>>]
    /\ r_val = [k \in 1..2 |-> <<>>]
    /\ r_stats = [k \in 1..2 |-> NoCounts]
    /\ r_files = [k \in 1..2 |-> <<>>]

ReportIdle ==
    /\ r_lines = <<>>
    /\ r_run = 0
    /\ r_pc = "idle"
    /\ ReportStart

OrderStart ==
    /\ o_lpc = "idle"
    /\ o_listing = <<>>
    /\ o_file = <<>>
    /\ o_lineno = 0
    /\ o_total = 0
    /\ o_examples = <<>>
    /\ o_origin = <<>>
    /\ o_all = <<>>
    /\ o_all_origin = <<>>

OrderIdle ==
    /\ o_pc = "idle"
    /\ OrderStart

ClassIdle ==
    /\ c_messages = <<>>
    /\ c_text = <<>>
    /\ c_pc = "idle"
    /\ c_result = ""

ExportIdle ==
    /\ e_row = Row("", "", TextVal("null", <<>>), TextVal("null", <<>>),
                   CtxVal("null", <<>>, {}, FALSE))
    /\ e_pc = -1
    /\ e_example = None
    /\ e_result = Ok(<<>>)

SplitInit ==
    /\ \E n \in SplitLens : sp_examples = [k \in 1..n |-> k]
    /\ sp_ratio \in 1..RatioDen
    /\ sp_seed \in Seeds
    /\ sp_run = 1
    /\ sp_pc = "call"
    /\ sp_entropy = 0
    /\ sp_rng = 0
    /\ sp_shuffled = <<>>
    /\ sp_i = 0
    /\ sp_out = [k \in 1..2 |-> NoOut]
    /\ DedupIdle
    /\ ValidateIdle
    /\ PipeIdle
    /\ NormIdle
    /\ ExportIdle
    /\ ReportIdle
    /\ OrderIdle
    /\ ClassIdle

\* rng = random.Random(seed); shuffled = list(examples)
SplitCall ==
    /\ sp_pc = "call"
    /\ \E e \in 0..MaxEntropy :
         /\ sp_entropy' = e
         /\ sp_rng' = SeedRng(sp_seed, e)
    /\ sp_shuffled' = sp_examples
    /\ sp_i' = Len(sp_examples) - 1
    /\ sp_pc' = "shuffle"
    /\ UNCHANGED <<sp_examples, sp_ratio, sp_seed, sp_run, sp_out>>
    /\ UNCHANGED nonSplitVars

\* one iteration of rng.shuffle(shuffled)
SplitShuffleStep ==
    /\ sp_pc = "shuffle"
    /\ sp_i >= 1
    /\ LET r == ShuffleIter(sp_shuffled, sp_i, sp_rng)
       IN  /\ sp_shuffled' = r.list
           /\ sp_rng' = r.rng
    /\ sp_i' = sp_i - 1
    /\ UNCHANGED <<sp_examples, sp_ratio, sp_seed, sp_run, sp_pc,
                   sp_entropy, sp_out>>
    /\ UNCHANGED nonSplitVars

\* split_idx = ...; return shuffled[:split_idx], shuffled[split_idx:]
SplitDone ==
    /\ sp_pc = "shuffle"
    /\ sp_i < 1
    /\ sp_out' = [sp_out EXCEPT ![sp_run] = SplitReturn(sp_shuffled, sp_ratio)]
    /\ sp_pc' = "returned"
    /\ UNCHANGED <<sp_examples, sp_ratio, sp_seed, sp_run, sp_entropy,
                   sp_rng, sp_shuffled, sp_i>>
    /\ UNCHANGED nonSplitVars

\* the second execution, with the same arguments
SplitAgain ==
    /\ sp_pc = "returned"
    /\ sp_run = 1
    /\ sp_run' = 2
    /\ sp_pc' = "call"
    /\ UNCHANGED <<sp_examples, sp_ratio, sp_seed, sp_entropy, sp_rng,
                   sp_shuffled, sp_i, sp_out>>
    /\ UNCHANGED nonSplitVars

SplitNext == SplitCall \/ SplitShuffleStep \/ SplitDone \/ SplitAgain

SpecSplit == SplitInit /\ [][SplitNext]_vars

Returned(k) == sp_run > k \/ (sp_run = k /\ sp_pc = "returned")

(***************************************************************************)
(* Properties of split_data (SpecSplit).                                   *)
(***************************************************************************)
IsPartitionOf(out, n) ==
    /\ Len(out[1]) + Len(out[2]) = n
    /\ Range(out[1]) \cap Range(out[2]) = {}
    /\ Range(out[1]) \cup Range(out[2]) = 1..n
    /\ Cardinality(Range(out[1])) = Len(out[1])
    /\ Cardinality(Range(out[2])) = Len(out[2])

\* C1: for every input of n >= 1 examples, every train fraction in (0,1] and
\* every seed, the pair returned by split_data is a strict partition of the
\* input positions: the lengths add up to n, no position is in both parts
\* and every position is in exactly one of them.
C1_SplitIsPartition ==
    \A k \in 1..2 : Returned(k) => IsPartitionOf(sp_out[k], Len(sp_examples))

C1_Witness ==
    /\ Returned(1)
    /\ Len(sp_examples) = 4
    /\ Len(sp_out[1][1]) = 2
    /\ Len(sp_out[1][2]) = 2
    /\ sp_shuffled # sp_examples

\* C9: two executions of split_data with the same seed, train fraction and
\* input sequence return identical train and identical validation sequences.
C9_SplitDeterministic ==
    Returned(2) => sp_out[1] = sp_out[2]

C9_Witness ==
    /\ Returned(2)
    /\ Len(sp_examples) = 5
    /\ sp_seed = DefaultSeed
    /\ sp_out[2][1] # Slice(sp_examples, 0, Len(sp_out[2][1]))
    /\ sp_out[2][2] # <<>>

MaxDedupLen == 3       \* longest enumerated input of deduplicate

A20 == Rep("a", MinAssistantLen)

B20 == Rep("b", MinAssistantLen)

\* Admitted examples: the same user/assistant content under system prompts
\* that differ in content, number and position, and examples that differ in
\* user or assistant content.
DedupPool ==
    { Example(<<Msg("system", <<"a">>), Msg("user", <<"b">>), Msg("assistant", A20)>>),
      Example(<<Msg("system", <<"b">>), Msg("user", <<"b">>), Msg("assistant", A20)>>),
      Example(<<Msg("user", <<"b">>), Msg("assistant", A20)>>),
      Example(<<Msg("system", <<"a">>), Msg("user", <<"b">>),
                Msg("system", <<"b">>), Msg("assistant", A20)>>),
      Example(<<Msg("user", <<"a">>), Msg("assistant", A20)>>),
      Example(<<Msg("user", <<"b">>), Msg("assistant", B20)>>),
      Example(<<Msg("user", <<"b", "|", "b">>), Msg("assistant", A20)>>),
      Example(<<Msg("user", <<"b">>), Msg("user", <<"b">>), Msg("assistant", A20)>>) }

SeqsUpTo(S, n) == UNION {[1..k -> S] : k \in 0..n}

DedupInit ==
    /\ d_examples \in SeqsUpTo(DedupPool, MaxDedupLen)
    /\ d_pc = "loop"
    /\ d_k = 1
    /\ d_seen = {}
    /\ d_unique = <<>>
    /\ d_kept = <<>>
    /\ SplitIdle
    /\ ValidateIdle
    /\ PipeIdle
    /\ NormIdle
    /\ ExportIdle
    /\ ReportIdle
    /\ OrderIdle
    /\ ClassIdle

\* one iteration of `for ex in examples`
DedupStep ==
    /\ d_pc = "loop"
    /\ d_k <= Len(d_examples)
    /\ LET st == DedupIter(d_examples, d_k,
                           [seen |-> d_seen, unique |-> d_unique, kept |-> d_kept])
       IN  /\ d_seen' = st.seen
           /\ d_unique' = st.unique
           /\ d_kept' = st.kept
    /\ d_k' = d_k + 1
    /\ UNCHANGED <<d_examples, d_pc>>
    /\ UNCHANGED nonDedupVars

\* return unique
DedupReturn ==
    /\ d_pc = "loop"
    /\ d_k > Len(d_examples)
    /\ d_pc' = "returned"
    /\ UNCHANGED <<d_examples, d_k, d_seen, d_unique, d_kept>>
    /\ UNCHANGED nonDedupVars

DedupNext == DedupStep \/ DedupReturn

SpecDedup == DedupInit /\ [][DedupNext]_vars

(***************************************************************************)
(* Properties of deduplicate and content_hash (SpecDedup).                 *)
(***************************************************************************)
RECURSIVE UserAssistantParts(_)
\* the (role-free) contents of the user and assistant messages, in order
UserAssistantParts(items) ==
    IF items = <<>> THEN <<>>
    ELSE (IF items[1].role.s # "system" THEN <<items[1].content.s>> ELSE <<>>)
         \o UserAssistantParts(Tail(items))

SameUserAssistant(x, y) ==
    UserAssistantParts(x.messages.items) = UserAssistantParts(y.messages.items)

HashOf(x) == content_hash(x.messages.items)

\* C2: deduplicate returns a subsequence of its input in the original order
\* in which no two examples share a content hash; the first example of every
\* hash survives, and of two inputs with identical user+assistant content
\* the later one never survives.
C2_DedupStableFirst ==
    d_pc = "returned" =>
        /\ Len(d_kept) = Len(d_unique)
        /\ \A k \in DOMAIN d_kept :
             /\ d_kept[k] \in DOMAIN d_examples
             /\ d_unique[k] = d_examples[d_kept[k]]
        /\ \A k \in DOMAIN d_kept : \A m \in DOMAIN d_kept :
             k < m => /\ d_kept[k] < d_kept[m]
                      /\ HashOf(d_unique[k]) # HashOf(d_unique[m])
        /\ \A i \in DOMAIN d_examples :
             (\A j \in 1..(i - 1) : HashOf(d_examples[j]) # HashOf(d_examples[i]))
                 => i \in Range(d_kept)
        /\ \A i \in DOMAIN d_examples : \A j \in DOMAIN d_examples :
             (i < j /\ SameUserAssistant(d_examples[i], d_examples[j]))
                 => j \notin Range(d_kept)

C2_Witness ==
    /\ d_pc = "returned"
    /\ Len(d_examples) = 3
    /\ d_kept = <<1, 3>>
    /\ d_examples[1] # d_examples[2]
    /\ SameUserAssistant(d_examples[1], d_examples[2])

DiffersOnlyInSystem(x, y) == x # y /\ SameUserAssistant(x, y)

\* C8: examples whose user and assistant messages have identical contents in
\* identical order get the same hash, whatever the number, position or
\* content of their system messages; records differing only in system
\* content collapse to one record after deduplicate.
C8_HashIgnoresSystem ==
    /\ \A i \in DOMAIN d_examples : \A j \in DOMAIN d_examples :
         SameUserAssistant(d_examples[i], d_examples[j])
             => HashOf(d_examples[i]) = HashOf(d_examples[j])
    /\ d_pc = "returned" =>
         \A k \in DOMAIN d_unique : \A m \in DOMAIN d_unique :
             k # m => ~DiffersOnlyInSystem(d_unique[k], d_unique[m])

C8_Witness ==
    /\ d_pc = "returned"
    /\ Len(d_examples) = 2
    /\ DiffersOnlyInSystem(d_examples[1], d_examples[2])
    /\ Len(d_examples[1].messages.items) # Len(d_examples[2].messages.items)
    /\ Len(d_unique) = 1

(***************************************************************************)
(* validate_chatml applied twice to one parsed JSON value.                 *)
(***************************************************************************)
MaxMsgs == 3           \* longest enumerated `messages` list

LongList == 25         \* element count of an array used as content

\* "ok" padded with blanks to the minimum length
PaddedOk == <<"a", "b">> \o Rep(" ", MinAssistantLen - 2)

\* a decomposed letter followed by plain ones, of the minimum length
Decomposed20 == <<"e", "^">> \o Rep("a", MinAssistantLen - 2)

\* entries of a `messages` list, of every JSON shape the checks tell apart
ValEntries ==
    { Msg("system", <<"a">>),
      Msg("user", <<"b">>),
      Msg("assistant", A20),
      Msg("assistant", <<"a", "b">>),
      Msg("assistant", PaddedOk),
      Msg("assistant", Decomposed20),
      Msg("assistant", Rep(" ", MinAssistantLen)),
      Msg("tool", <<"b">>),
      Entry("obj", TRUE, StrRole("assistant"), FALSE, NoContent),
      Entry("obj", TRUE, StrRole("assistant"), TRUE, ContentVal("num", <<>>, 0)),
      Entry("obj", TRUE, StrRole("assistant"), TRUE, ContentVal("arr", <<>>, LongList)),
      Entry("obj", TRUE, StrRole("user"), TRUE, NoContent),
      Entry("obj", FALSE, NoRole, TRUE, StrContent(<<"b">>)),
      Entry("obj", TRUE, RoleVal("arr", "[]"), TRUE, StrContent(<<"b">>)),
      Entry("obj", TRUE, RoleVal("num", "1"), TRUE, StrContent(<<"b">>)),
      NonDictEntry("str") }

\* values that are no object, or objects without a `messages` list
ValOddExamples ==
    { ExampleVal(t, FALSE, MessagesVal("null", <<>>)) : t \in JsonTypes }
    \cup { ExampleVal(t, TRUE, MessagesVal("null", <<>>)) : t \in {"arr", "str"} }
    \cup { ExampleVal("obj", TRUE, MessagesVal(t, <<>>)) : t \in JsonTypes \ {"arr"} }

ValExamples ==
    ValOddExamples \cup { Example(items) : items \in SeqsUpTo(ValEntries, MaxMsgs) }

ValidateInit ==
    /\ v_example \in ValExamples
    /\ v_pc = 0
    /\ v_result = [k \in 1..2 |-> Ok(<<>>)]
    /\ v_outcome = "none"
    /\ SplitIdle
    /\ DedupIdle
    /\ PipeIdle
    /\ NormIdle
    /\ ExportIdle
    /\ ReportIdle
    /\ OrderIdle
    /\ ClassIdle

\* errors = validate_chatml(data, line_num, filepath.name)
ValidateCall ==
    /\ v_pc = 0
    /\ v_result' = [v_result EXCEPT ![1] = validate_chatml(v_example)]
    /\ v_pc' = 1
    /\ UNCHANGED <<v_example, v_outcome>>
    /\ UNCHANGED nonValidateVars

\* the same record validated a second time
ValidateAgain ==
    /\ v_pc = 1
    /\ v_result' = [v_result EXCEPT ![2] = validate_chatml(v_example)]
    /\ v_pc' = 2
    /\ UNCHANGED <<v_example, v_outcome>>
    /\ UNCHANGED nonValidateVars

ValidateNext == ValidateCall \/ ValidateAgain

SpecValidate == ValidateInit /\ [][ValidateNext]_vars

(***************************************************************************)
(* Properties of validate_chatml (SpecValidate).                           *)
(***************************************************************************)
\* C4: for every parsed JSON value given as the record, validate_chatml
\* returns a (possibly empty) violation list without raising, and validating
\* the same record twice returns the same list.
C4_ValidateTotal ==
    /\ \A k \in 1..2 : v_pc >= k => v_result[k].raised = "none"
    /\ v_pc = 2 => v_result[1] = v_result[2]

(***************************************************************************)
(* main() and load_jsonl_dir as a step machine.  The contents of the two   *)
(* source directories are supplied by the environment while they are read: *)
(* whether a directory exists, whether it has another file, whether the    *)
(* file has another line and what the line holds.                          *)
(***************************************************************************)
MaxFiles == 2          \* *.jsonl files per source directory
MaxLines == 2          \* lines per file
MaxTotalLines == 3     \* lines read during one run

\* a line of an input file: blank, not JSON, or JSON text of a value
Line(kind, val) == [kind |-> kind, val |-> val]

NullVal == ExampleVal("null", FALSE, MessagesVal("null", <<>>))

ValidLines ==
    { Line("json", Example(<<Msg("system", <<"a">>), Msg("user", <<"b">>),
                             Msg("assistant", A20)>>)),
      Line("json", Example(<<Msg("system", <<"b">>), Msg("user", <<"b">>),
                             Msg("assistant", A20)>>)),
      Line("json", Example(<<Msg("user", <<"b">>), Msg("assistant", B20)>>)),
      Line("json", Example(<<Msg("user", <<"b">>), Msg("assistant", PaddedOk)>>)),
      Line("json", Example(<<Msg("user", <<" ", "b", "\t", " ">>),
                             Msg("assistant", A20 \o <<"\n">>)>>)) }

InvalidLines ==
    { Line("json", Example(<<Msg("assistant", A20)>>)),
      Line("json", Example(<<Msg("system", <<"a">>), Msg("user", <<"b">>),
                             Msg("assistant", <<"a", "b">>)>>)),
      Line("json", Example(<<Msg("tool", <<"b">>), Msg("assistant", A20)>>)),
      Line("json", Example(<<Msg("user", <<" ">>), Msg("assistant", A20)>>)),
      Line("json", Example(<<Msg("user", <<"b">>), Msg("user", <<"a">>)>>)) }

RaisingLines ==
    { Line("json", ExampleVal("num", FALSE, MessagesVal("null", <<>>))),
      Line("json", Example(<<Msg("user", <<"b">>), NonDictEntry("str")>>)) }

Lines ==
    {Line("blank", NullVal), Line("bad", NullVal)}
        \cup ValidLines \cup InvalidLines \cup RaisingLines

TrainSplits == {DefaultTrainNum, 5}

RECURSIVE NormalizeItems(_)
\* for msg in data["messages"]: msg["content"] = normalize_text(msg["content"])
\* raises when an entry is no object, has no content, or content is no string
NormalizeItems(items) ==
    IF items = <<>> THEN [raised |-> "none", items |-> <<>>]
    ELSE LET m == items[1]
         IN  IF m.t # "obj" THEN [raised |-> "TypeError", items |-> <<>>]
             ELSE IF ~m.has_content THEN [raised |-> "KeyError", items |-> <<>>]
             ELSE IF m.content.t # "str"
             THEN [raised |-> "TypeError", items |-> <<>>]
             ELSE LET rest == NormalizeItems(Tail(items))
                      nm   == [m EXCEPT !.content = StrContent(normalize_text(m.content.s))]
                  IN  IF rest.raised # "none" THEN rest
                      ELSE [raised |-> "none", items |-> <<nm>> \o rest.items]

\* A loader that admits a record whatever the validator reports.
LineOutcomeIgnoringErrors(line) ==
    IF line.kind = "blank" THEN [kind |-> "blank", example |-> NullVal]
    ELSE IF line.kind = "bad" THEN [kind |-> "parse_error", example |-> NullVal]
    ELSE LET v == validate_chatml(line.val)
         IN  IF v.raised # "none" THEN [kind |-> "raised", example |-> NullVal]
             ELSE IF line.val.t # "obj" \/ line.val.messages.t # "arr"
                  THEN [kind |-> "raised", example |-> NullVal]
             ELSE LET n == NormalizeItems(line.val.messages.items)
                  IN  IF n.raised # "none"
                      THEN [kind |-> "raised", example |-> NullVal]
                      ELSE [kind |-> "admitted", example |-> Example(n.items)]

\* body of `for line_num, line in enumerate(f, start=1)` for one line:
\* what happens to the line and the example appended, if any
LineOutcome(line) ==
    IF line.kind = "blank" THEN [kind |-> "blank", example |-> NullVal]
    ELSE IF line.kind = "bad" THEN [kind |-> "parse_error", example |-> NullVal]
    ELSE LET v == validate_chatml(line.val)
         IN  IF v.raised # "none" THEN [kind |-> "raised", example |-> NullVal]
             ELSE IF v.errors # <<>> THEN [kind |-> "rejected", example |-> NullVal]
             ELSE LET n == NormalizeItems(line.val.messages.items)
                  IN  IF n.raised # "none"
                      THEN [kind |-> "raised", example |-> NullVal]
                      ELSE [kind |-> "admitted", example |-> Example(n.items)]

\* the line is JSON text of a record with an empty violation list
ParsesAndValidates(line) ==
    /\ line.kind = "json"
    /\ validate_chatml(line.val).raised = "none"
    /\ validate_chatml(line.val).errors = <<>>

PipeInit ==
    /\ pc = "start"
    /\ train_split \in TrainSplits
    /\ PipeStart
    /\ SplitIdle
    /\ DedupIdle
    /\ ValidateIdle
    /\ NormIdle
    /\ ExportIdle
    /\ ReportIdle
    /\ OrderIdle
    /\ ClassIdle

Loading == pc \in {"load_seed", "load_feedback"}

\* output_dir.mkdir(parents=True, exist_ok=True); load_jsonl_dir(seed_dir, ..)
MainStart ==
    /\ pc = "start"
    /\ out_dir' = TRUE
    /\ pc' = "load_seed"
    /\ l_pc' = "enter"
    /\ UNCHANGED <<exit_code, seed_data, feedback_data, all_examples,
                   train_data, val_data, stats, train_file, val_file,
                   train_split>>
    /\ UNCHANGED <<l_files, l_lines, l_examples, l_file_count, l_good,
                   total_lines, parse_errors, rejected>>
    /\ UNCHANGED dir_status
    /\ UNCHANGED nonPipeVars

\* The two batches concatenated in the wrong order.
LoadReturnToPrepending(result, status) ==
    /\ IF pc = "load_seed"
       THEN /\ seed_data' = result
            /\ pc' = "load_feedback"
            /\ l_pc' = "enter"
            /\ dir_status' = [dir_status EXCEPT !["seed"] = status]
            /\ UNCHANGED feedback_data
       ELSE /\ feedback_data' = result
            /\ pc' = "check"
            /\ l_pc' = "idle"
            /\ dir_status' = [dir_status EXCEPT !["feedback"] = status]
            /\ UNCHANGED seed_data
    /\ all_examples' = result \o all_examples
    /\ l_files' = 0
    /\ l_lines' = 0
    /\ l_examples' = <<>>
    /\ l_file_count' = 0
    /\ l_good' = 0
    /\ UNCHANGED <<total_lines, parse_errors, rejected>>
    /\ UNCHANGED <<exit_code, out_dir, train_data, val_data, stats,
                   train_file, val_file, train_split>>
    /\ UNCHANGED nonPipeVars

\* `return examples` of load_jsonl_dir and the statements of main up to the
\* next call: all_examples.extend(...), then the second load or the check;
\* status records how the directory was found
LoadReturnTo(result, status) ==
    /\ IF pc = "load_seed"
       THEN /\ seed_data' = result
            /\ pc' = "load_feedback"
            /\ l_pc' = "enter"
            /\ dir_status' = [dir_status EXCEPT !["seed"] = status]
            /\ UNCHANGED feedback_data
       ELSE /\ feedback_data' = result
            /\ pc' = "check"
            /\ l_pc' = "idle"
            /\ dir_status' = [dir_status EXCEPT !["feedback"] = status]
            /\ UNCHANGED seed_data
    /\ all_examples' = all_examples \o result
    /\ l_files' = 0
    /\ l_lines' = 0
    /\ l_examples' = <<>>
    /\ l_file_count' = 0
    /\ l_good' = 0
    /\ UNCHANGED <<total_lines, parse_errors, rejected>>
    /\ UNCHANGED <<exit_code, out_dir, train_data, val_data, stats,
                   train_file, val_file, train_split>>
    /\ UNCHANGED nonPipeVars

\* A loader for which a missing directory ends the run.
LoadMissingDirFatal ==
    /\ Loading
    /\ l_pc = "enter"
    /\ pc' = "exited"
    /\ exit_code' = 1
    /\ l_pc' = "idle"
    /\ dir_status' = [dir_status EXCEPT
           ![IF pc = "load_seed" THEN "seed" ELSE "feedback"] = "missing"]
    /\ UNCHANGED <<l_files, l_lines, l_examples, l_file_count, l_good,
                   total_lines, parse_errors, rejected>>
    /\ UNCHANGED <<out_dir, seed_data, feedback_data, all_examples, train_data,
                   val_data, stats, train_file, val_file, train_split>>
    /\ UNCHANGED nonPipeVars

\* if not directory.exists(): warning; return examples
LoadMissingDir ==
    /\ Loading
    /\ l_pc = "enter"
    /\ LoadReturnTo(<<>>, "missing")

\* jsonl_files = sorted(directory.glob("*.jsonl"))
LoadListFiles ==
    /\ Loading
    /\ l_pc = "enter"
    /\ l_pc' = "files"
    /\ UNCHANGED <<l_files, l_lines, l_examples, l_file_count, l_good,
                   total_lines, parse_errors, rejected>>
    /\ UNCHANGED mainVars
    /\ UNCHANGED dir_status
    /\ UNCHANGED nonPipeVars

\* the next file of the directory: file_count = 0; open(filepath)
LoadOpenFile ==
    /\ Loading
    /\ l_pc = "files"
    /\ l_files < MaxFiles
    /\ l_files' = l_files + 1
    /\ l_lines' = 0
    /\ l_file_count' = 0
    /\ l_pc' = "lines"
    /\ UNCHANGED <<l_examples, l_good, total_lines, parse_errors, rejected>>
    /\ UNCHANGED mainVars
    /\ UNCHANGED dir_status
    /\ UNCHANGED nonPipeVars

\* one line of the current file, through the body of the line loop; an
\* exception other than JSONDecodeError leaves load_jsonl_dir and main
LoadReadLine ==
    /\ Loading
    /\ l_pc = "lines"
    /\ l_lines < MaxLines
    /\ total_lines < MaxTotalLines
    /\ \E line \in Lines :
         LET o == LineOutcome(line)
         IN  /\ l_examples' = IF o.kind = "admitted"
                              THEN Append(l_examples, o.example) ELSE l_examples
             /\ l_file_count' = IF o.kind = "admitted"
                                THEN l_file_count + 1 ELSE l_file_count
             /\ parse_errors' = IF o.kind = "parse_error"
                                THEN parse_errors + 1 ELSE parse_errors
             /\ rejected' = IF o.kind = "rejected" THEN rejected + 1 ELSE rejected
             /\ l_good' = IF ParsesAndValidates(line) THEN l_good + 1 ELSE l_good
             /\ IF o.kind = "raised"
                THEN /\ pc' = "crashed"
                     /\ exit_code' = 1
                     /\ l_pc' = "idle"
                ELSE UNCHANGED <<pc, exit_code, l_pc>>
    /\ l_lines' = l_lines + 1
    /\ total_lines' = total_lines + 1
    /\ UNCHANGED l_files
    /\ UNCHANGED <<out_dir, seed_data, feedback_data, all_examples, train_data,
                   val_data, stats, train_file, val_file, train_split>>
    /\ UNCHANGED dir_status
    /\ UNCHANGED nonPipeVars

\* end of the current file: logger.info("  Loaded %d examples from %s")
LoadEndFile ==
    /\ Loading
    /\ l_pc = "lines"
    /\ l_pc' = "files"
    /\ UNCHANGED <<l_files, l_lines, l_examples, l_file_count, l_good,
                   total_lines, parse_errors, rejected>>
    /\ UNCHANGED mainVars
    /\ UNCHANGED dir_status
    /\ UNCHANGED nonPipeVars

\* no further file (or none at all): return examples
LoadReturn ==
    /\ Loading
    /\ l_pc = "files"
    /\ LoadReturnTo(l_examples, "read")

\* A check that lets an empty corpus through.
MainCheckEmptySkipped ==
    /\ pc = "check"
    /\ pc' = "dedup"
    /\ UNCHANGED exit_code
    /\ UNCHANGED <<out_dir, seed_data, feedback_data, all_examples, train_data,
                   val_data, stats, train_file, val_file, train_split>>
    /\ UNCHANGED loaderVars
    /\ UNCHANGED dir_status
    /\ UNCHANGED nonPipeVars

\* if not all_examples: logger.error(...); sys.exit(1)
MainCheckEmpty ==
    /\ pc = "check"
    /\ IF all_examples = <<>>
       THEN /\ pc' = "exited"
            /\ exit_code' = 1
       ELSE /\ pc' = "dedup"
            /\ UNCHANGED exit_code
    /\ UNCHANGED <<out_dir, seed_data, feedback_data, all_examples, train_data,
                   val_data, stats, train_file, val_file, train_split>>
    /\ UNCHANGED loaderVars
    /\ UNCHANGED dir_status
    /\ UNCHANGED nonPipeVars

\* all_examples = deduplicate(all_examples)
MainDeduplicate ==
    /\ pc = "dedup"
    /\ all_examples' = deduplicate(all_examples)
    /\ pc' = "split"
    /\ UNCHANGED <<exit_code, out_dir, seed_data, feedback_data, train_data,
                   val_data, stats, train_file, val_file, train_split>>
    /\ UNCHANGED loaderVars
    /\ UNCHANGED dir_status
    /\ UNCHANGED nonPipeVars

\* A shuffle of the caller's list itself.
ExamplesAfterSplitInPlace(examples, shuffled) == shuffled

\* the caller's list after split_data: `shuffled = list(examples)` is a
\* copy, and the shuffle and the slices work on the copy
ExamplesAfterSplit(examples, shuffled) == examples

\* The pair returned by split_data unpacked the wrong way round.
MainSplitSwapped ==
    /\ pc = "split"
    /\ \E e \in 0..MaxEntropy :
         LET out == split_data(all_examples, train_split, DefaultSeed, e)
         IN  /\ train_data' = out[2]
             /\ val_data' = out[1]
             /\ all_examples' = ExamplesAfterSplit(all_examples, out[1] \o out[2])
    /\ pc' = "stats"
    /\ UNCHANGED <<exit_code, out_dir, seed_data, feedback_data,
                   stats, train_file, val_file, train_split>>
    /\ UNCHANGED loaderVars
    /\ UNCHANGED dir_status
    /\ UNCHANGED nonPipeVars

\* train_data, val_data = split_data(all_examples, train_ratio=args.train_split)
MainSplit ==
    /\ pc = "split"
    /\ \E e \in 0..MaxEntropy :
         LET out == split_data(all_examples, train_split, DefaultSeed, e)
         IN  /\ train_data' = out[1]
             /\ val_data' = out[2]
             /\ all_examples' = ExamplesAfterSplit(all_examples, out[1] \o out[2])
    /\ pc' = "stats"
    /\ UNCHANGED <<exit_code, out_dir, seed_data, feedback_data,
                   stats, train_file, val_file, train_split>>
    /\ UNCHANGED loaderVars
    /\ UNCHANGED dir_status
    /\ UNCHANGED nonPipeVars

\* stats = compute_statistics(all_examples) and the printed summary; of the
\* statistics only `total` is kept here, the task-type and language tables
\* do not influence any later statement of main
MainStatistics ==
    /\ pc = "stats"
    /\ stats' = [total |-> Len(all_examples)]
    /\ pc' = "open_train"
    /\ UNCHANGED <<exit_code, out_dir, seed_data, feedback_data, all_examples,
                   train_data, val_data, train_file, val_file, train_split>>
    /\ UNCHANGED loaderVars
    /\ UNCHANGED dir_status
    /\ UNCHANGED nonPipeVars

\* json.dumps(ex, ensure_ascii=False) + "\n": one line of text per example
JsonLine(ex) == [json |-> ex]

\* with open(train_path, "w", encoding="utf-8") as f
MainOpenTrain ==
    /\ pc = "open_train"
    /\ train_file' = [name |-> TrainName, state |-> "open", lines |-> <<>>]
    /\ pc' = "write_train"
    /\ UNCHANGED <<exit_code, out_dir, seed_data, feedback_data, all_examples,
                   train_data, val_data, stats, val_file, train_split>>
    /\ UNCHANGED loaderVars
    /\ UNCHANGED dir_status
    /\ UNCHANGED nonPipeVars

\* for ex in train_data: f.write(...)
MainWriteTrain ==
    /\ pc = "write_train"
    /\ Len(train_file.lines) < Len(train_data)
    /\ train_file' = [train_file EXCEPT
           !.lines = Append(@, JsonLine(train_data[Len(train_file.lines) + 1]))]
    /\ UNCHANGED <<pc, exit_code, out_dir, seed_data, feedback_data,
                   all_examples, train_data, val_data, stats, val_file,
                   train_split>>
    /\ UNCHANGED loaderVars
    /\ UNCHANGED dir_status
    /\ UNCHANGED nonPipeVars

\* A run that ends once train.jsonl is closed.
MainCloseTrainEndingRun ==
    /\ pc = "write_train"
    /\ Len(train_file.lines) = Len(train_data)
    /\ train_file' = [train_file EXCEPT !.state = "closed"]
    /\ pc' = "done"
    /\ exit_code' = 0
    /\ UNCHANGED <<out_dir, seed_data, feedback_data, all_examples,
                   train_data, val_data, stats, val_file, train_split>>
    /\ UNCHANGED loaderVars
    /\ UNCHANGED dir_status
    /\ UNCHANGED nonPipeVars

\* leaving the first `with` block closes train.jsonl
MainCloseTrain ==
    /\ pc = "write_train"
    /\ Len(train_file.lines) = Len(train_data)
    /\ train_file' = [train_file EXCEPT !.state = "closed"]
    /\ pc' = "open_val"
    /\ UNCHANGED <<exit_code, out_dir, seed_data, feedback_data, all_examples,
                   train_data, val_data, stats, val_file, train_split>>
    /\ UNCHANGED loaderVars
    /\ UNCHANGED dir_status
    /\ UNCHANGED nonPipeVars

\* with open(val_path, "w", encoding="utf-8") as f
MainOpenVal ==
    /\ pc = "open_val"
    /\ val_file' = [name |-> ValName, state |-> "open", lines |-> <<>>]
    /\ pc' = "write_val"
    /\ UNCHANGED <<exit_code, out_dir, seed_data, feedback_data, all_examples,
                   train_data, val_data, stats, train_file, train_split>>
    /\ UNCHANGED loaderVars
    /\ UNCHANGED dir_status
    /\ UNCHANGED nonPipeVars

\* A loop that writes the validation examples last to first.
MainWriteValBackwards ==
    /\ pc = "write_val"
    /\ Len(val_file.lines) < Len(val_data)
    /\ val_file' = [val_file EXCEPT
           !.lines = Append(@, JsonLine(val_data[Len(val_data) - Len(val_file.lines)]))]
    /\ UNCHANGED <<pc, exit_code, out_dir, seed_data, feedback_data,
                   all_examples, train_data, val_data, stats, train_file,
                   train_split>>
    /\ UNCHANGED loaderVars
    /\ UNCHANGED dir_status
    /\ UNCHANGED nonPipeVars

\* for ex in val_data: f.write(...)
MainWriteVal ==
    /\ pc = "write_val"
    /\ Len(val_file.lines) < Len(val_data)
    /\ val_file' = [val_file EXCEPT
           !.lines = Append(@, JsonLine(val_data[Len(val_file.lines) + 1]))]
    /\ UNCHANGED <<pc, exit_code, out_dir, seed_data, feedback_data,
                   all_examples, train_data, val_data, stats, train_file,
                   train_split>>
    /\ UNCHANGED loaderVars
    /\ UNCHANGED dir_status
    /\ UNCHANGED nonPipeVars

\* leaving the second `with` block closes val.jsonl; main returns
MainCloseVal ==
    /\ pc = "write_val"
    /\ Len(val_file.lines) = Len(val_data)
    /\ val_file' = [val_file EXCEPT !.state = "closed"]
    /\ pc' = "done"
    /\ exit_code' = 0
    /\ UNCHANGED <<out_dir, seed_data, feedback_data, all_examples,
                   train_data, val_data, stats, train_file, train_split>>
    /\ UNCHANGED loaderVars
    /\ UNCHANGED dir_status
    /\ UNCHANGED nonPipeVars

Next ==
    \/ MainStart
    \/ LoadMissingDir
    \/ LoadListFiles
    \/ LoadOpenFile
    \/ LoadReadLine
    \/ LoadEndFile
    \/ LoadReturn
    \/ MainCheckEmpty
    \/ MainDeduplicate
    \/ MainSplit
    \/ MainStatistics
    \/ MainOpenTrain
    \/ MainWriteTrain
    \/ MainCloseTrain
    \/ MainOpenVal
    \/ MainWriteVal
    \/ MainCloseVal

Spec == PipeInit /\ [][Next]_vars

(***************************************************************************)
(* Properties of the run (Spec).                                           *)
(***************************************************************************)
\* every example the loader has admitted, wherever the run holds it
Admitted ==
    Range(l_examples) \cup Range(seed_data) \cup Range(feedback_data)
        \cup Range(all_examples) \cup Range(train_data) \cup Range(val_data)

PastCheck ==
    pc \in {"dedup", "split", "stats", "open_train", "write_train",
            "open_val", "write_val", "done"}

\* C3: a line that fails to parse, or parses but fails validation, is skipped
\* and every later line and file is still processed: no record ends the
\* load, and the examples loaded from a directory are as many as its
\* non-blank lines that parse and validate.
C3_RecordErrorsIsolated ==
    /\ pc # "crashed"
    /\ (Loading /\ l_pc \in {"files", "lines"}) => Len(l_examples) = l_good

\* C5: if zero valid examples are loaded across both sources, the run aborts
\* with a failure exit and no output file is written or opened for writing
\* at any point of the run.
C5_EmptyCorpusAborts ==
    /\ PastCheck => Len(seed_data) + Len(feedback_data) > 0
    /\ Len(seed_data) + Len(feedback_data) = 0
           => (train_file.state = "absent" /\ val_file.state = "absent")
    /\ pc = "exited"
           => /\ exit_code = 1
              /\ all_examples = <<>>
              /\ train_file.state = "absent"
              /\ val_file.state = "absent"

C5_Witness ==
    /\ pc = "exited"
    /\ exit_code = 1
    /\ total_lines >= 2
    /\ parse_errors >= 1
    /\ rejected >= 1

\* C6: every admitted example (hence every example of the train and
\* validation outputs) has, after normalisation, at least 20 characters of
\* content in every assistant message.
C6_AssistantLengthAfterNormalize ==
    \A ex \in Admitted : \A k \in DOMAIN ex.messages.items :
        IsAssistant(ex.messages.items[k])
            => Len(ex.messages.items[k].content.s) >= MinAssistantLen

\* C7: every admitted example has, after normalisation, at least 2 messages,
\* only system/user/assistant roles, at least one assistant message, and in
\* every message a string content that is non-empty after trimming.
C7_AdmittedStructure ==
    \A ex \in Admitted :
        LET items == ex.messages.items
        IN  /\ ex.t = "obj" /\ ex.messages.t = "arr"
            /\ Len(items) >= 2
            /\ \A k \in DOMAIN items :
                 /\ items[k].t = "obj"
                 /\ items[k].has_role
                 /\ items[k].role.t = "str"
                 /\ items[k].role.s \in {"system", "user", "assistant"}
                 /\ items[k].has_content
                 /\ items[k].content.t = "str"
                 /\ LStrip(items[k].content.s) # <<>>
            /\ \E k \in DOMAIN items :
                 items[k].role.t = "str" /\ items[k].role.s = "assistant"

C7_Witness ==
    /\ pc = "done"
    /\ rejected >= 1
    /\ Example(<<Msg("user", <<"b">>), Msg("assistant", A20)>>) \in Range(train_data)

PastDedup ==
    pc \in {"split", "stats", "open_train", "write_train",
            "open_val", "write_val", "done"}

\* C11: all seed examples precede all feedback examples in the sequence
\* passed to deduplicate, so of a seed and a feedback example with identical
\* user+assistant content the survivor is the seed one.
C11_SeedPreferred ==
    /\ pc \in {"check", "dedup"} => all_examples = seed_data \o feedback_data
    /\ PastDedup =>
         \A s \in Range(seed_data) : \A f \in Range(feedback_data) :
             SameUserAssistant(s, f) =>
                 /\ \E u \in Range(all_examples) \cap Range(seed_data) :
                        HashOf(u) = HashOf(f)
                 /\ f \in Range(all_examples) => f \in Range(seed_data)

C11_Witness ==
    /\ pc = "done"
    /\ Len(seed_data) = 1
    /\ Len(feedback_data) = 1
    /\ DiffersOnlyInSystem(seed_data[1], feedback_data[1])
    /\ all_examples = seed_data

\* C12: a missing source directory is not fatal: load_jsonl_dir returns an
\* empty sequence for it, the other source is still loaded, and the run
\* does not abort when the other source contributes a valid example.
C12_MissingDirNotFatal ==
    /\ dir_status["seed"] = "missing" => seed_data = <<>>
    /\ dir_status["feedback"] = "missing" => feedback_data = <<>>
    /\ (pc = "exited" \/ PastCheck)
           => (dir_status["seed"] # "pending" /\ dir_status["feedback"] # "pending")
    /\ pc = "exited" => Len(seed_data) + Len(feedback_data) = 0
    /\ pc = "done" => exit_code = 0

C12_Witness ==
    /\ pc = "done"
    /\ exit_code = 0
    /\ dir_status["seed"] = "missing"
    /\ dir_status["feedback"] = "read"
    /\ Len(feedback_data) >= 1
    /\ train_file.state = "closed"

(***************************************************************************)
(* normalize_text applied once and twice to one string.                    *)
(***************************************************************************)
MaxTextLen == 6        \* longest enumerated input of normalize_text

\* plain letter, decomposable pair, space, tab and newline
TextChars == {"a", "e", "^", " ", "\t", "\n"}

NormInit ==
    /\ n_text \in SeqsUpTo(TextChars, MaxTextLen)
    /\ n_pc = 0
    /\ n_once = <<>>
    /\ n_twice = <<>>
    /\ SplitIdle
    /\ DedupIdle
    /\ ValidateIdle
    /\ PipeIdle
    /\ ExportIdle
    /\ ReportIdle
    /\ OrderIdle
    /\ ClassIdle

\* msg["content"] = normalize_text(msg["content"])
NormalizeOnce ==
    /\ n_pc = 0
    /\ n_once' = normalize_text(n_text)
    /\ n_pc' = 1
    /\ UNCHANGED <<n_text, n_twice>>
    /\ UNCHANGED nonNormVars

\* the normalised text normalised again
NormalizeTwice ==
    /\ n_pc = 1
    /\ n_twice' = normalize_text(n_once)
    /\ n_pc' = 2
    /\ UNCHANGED <<n_text, n_once>>
    /\ UNCHANGED nonNormVars

NormNext == NormalizeOnce \/ NormalizeTwice

SpecNorm == NormInit /\ [][NormNext]_vars

\* C13: normalize_text(normalize_text(x)) = normalize_text(x) for every
\* string x over horizontal whitespace, newlines and other characters.
C13_NormalizeIdempotent ==
    n_pc = 2 => n_twice = n_once

C13_Witness ==
    /\ n_pc = 2
    /\ n_text = <<" ", "e", "^", "\t", " ", "\n">>
    /\ n_once = <<"E">>
    /\ n_twice = <<"E">>

(***************************************************************************)
(* validate_chatml followed by the decision of the line loop of            *)
(* load_jsonl_dir on the same record (lines 173-184).                      *)
(***************************************************************************)
\* if errors: ... continue; else normalise and examples.append(data)
LoaderDecide ==
    /\ v_pc = 1
    /\ v_outcome = "none"
    /\ v_outcome' = LineOutcome(Line("json", v_example)).kind
    /\ UNCHANGED <<v_example, v_pc, v_result>>
    /\ UNCHANGED nonValidateVars

AdmitNext == ValidateCall \/ ValidateAgain \/ LoaderDecide

SpecAdmit == ValidateInit /\ [][AdmitNext]_vars

\* the record is an object whose `messages` is a list
HasMessagesList(ex) == ex.t = "obj" /\ ex.has_messages /\ ex.messages.t = "arr"

\* a string content (or none at all) of fewer than 20 raw characters
ShortAssistant(m) ==
    /\ m.t = "obj"
    /\ IsAssistant(m)
    /\ GetContent(m).t = "str"
    /\ Len(GetContent(m).s) < 20

\* C14: a record whose `messages` list contains an assistant message with
\* fewer than 20 characters of raw content is rejected by the validator (the
\* validator returns a non-empty list of violations) and is not admitted by
\* the loader.
C14_ShortAssistantRejected ==
    (/\ HasMessagesList(v_example)
     /\ \E k \in DOMAIN v_example.messages.items :
            ShortAssistant(v_example.messages.items[k]))
        => /\ v_pc >= 1 => (/\ v_result[1].raised = "none"
                            /\ v_result[1].errors # <<>>)
           /\ v_outcome # "admitted"

\* C15: a record whose `messages` list has fewer than 2 entries, of any role
\* and content, is rejected with a violation list that contains the
\* too-few-messages violation.
C15_TooFewRejected ==
    (/\ v_pc >= 1
     /\ HasMessagesList(v_example)
     /\ Len(v_example.messages.items) < 2)
        => /\ v_result[1].raised = "none"
           /\ Err("too_few", 0, Len(v_example.messages.items), "")
                  \in Range(v_result[1].errors)

C15_Witness ==
    /\ v_pc >= 1
    /\ v_example = Example(<<Msg("assistant", A20)>>)
    /\ v_result[1] = Ok(<<Err("too_few", 0, 1, "")>>)

\* every violation of a list of entries, whatever the validator reports
ExpectedViolations(items) ==
    (IF Len(items) < 2 THEN {Err("too_few", 0, Len(items), "")} ELSE {})
    \cup { Err("not_a_dict", k - 1, 0, "") :
               k \in {j \in DOMAIN items : items[j].t # "obj"} }
    \cup { Err("missing_role", k - 1, 0, "") :
               k \in {j \in DOMAIN items : items[j].t = "obj" /\ ~items[j].has_role} }
    \cup { Err("invalid_role", k - 1, 0, items[k].role.s) :
               k \in {j \in DOMAIN items :
                          /\ items[j].t = "obj" /\ items[j].has_role
                          /\ ~(items[j].role.t = "str"
                               /\ items[j].role.s \in {"system", "user", "assistant"})} }
    \cup { Err("missing_content", k - 1, 0, "") :
               k \in {j \in DOMAIN items : items[j].t = "obj" /\ ~items[j].has_content} }
    \cup { Err("empty_content", k - 1, 0, "") :
               k \in {j \in DOMAIN items :
                          /\ items[j].t = "obj" /\ items[j].has_content
                          /\ (items[j].content.t # "str"
                              \/ \A c \in Range(items[j].content.s) : IsSpace(c))} }
    \cup (IF \E k \in DOMAIN items : items[k].t = "obj" /\ IsAssistant(items[k])
          THEN {} ELSE {Err("no_assistant", 0, 0, "")})
    \cup { Err("too_short", 0, Len(GetContent(items[k]).s), "") :
               k \in {j \in DOMAIN items : ShortAssistant(items[j])} }

\* C16: for every record whose `messages` is a list, all checks (minimum
\* count, per-entry object/role/content, assistant presence, assistant
\* length) are performed and every violation of the record is in the
\* returned list.
C16_AllViolationsReported ==
    (/\ v_pc >= 1
     /\ HasMessagesList(v_example)
     /\ v_result[1].raised = "none")
        => ExpectedViolations(v_example.messages.items)
               \subseteq Range(v_result[1].errors)

\* C17: the validator's result is the empty list or a non-empty list of
\* pairwise distinct violation descriptions, and the loader admits a record
\* if and only if the list is empty.
C17_DistinctViolations ==
    /\ (v_pc >= 1 /\ v_result[1].raised = "none") =>
           \A i \in DOMAIN v_result[1].errors : \A j \in DOMAIN v_result[1].errors :
               i # j => v_result[1].errors[i] # v_result[1].errors[j]
    /\ (v_outcome # "none" /\ v_result[1].raised = "none") =>
           (v_outcome = "admitted" <=> v_result[1].errors = <<>>)

(***************************************************************************)
(* The files main leaves in the output directory (lines 339-348).          *)
(***************************************************************************)
\* the names of the files the run has opened for writing
WrittenNames == {f.name : f \in {g \in {train_file, val_file} : g.state # "absent"}}

\* the lines json.dumps writes for a sequence of examples, in order
JsonLines(examples) == [i \in 1..Len(examples) |-> JsonLine(examples[i])]

\* C18 as stated: on every successful run exactly two files are written,
\* named train.jsonl and validation.jsonl; train.jsonl holds the train
\* sequence and validation.jsonl the validation sequence, one example per
\* line in split order.
C18_ValidationJsonl ==
    pc = "done" =>
        /\ WrittenNames = {"train.jsonl", "validation.jsonl"}
        /\ train_file = [name |-> "train.jsonl", state |-> "closed",
                         lines |-> JsonLines(train_data)]
        /\ val_file = [name |-> "validation.jsonl", state |-> "closed",
                       lines |-> JsonLines(val_data)]

\* C18 (amended): on every successful run exactly two files are written,
\* named train.jsonl and val.jsonl; train.jsonl holds the train sequence and
\* val.jsonl the validation sequence, one example per line in split order;
\* a run that exits on an empty corpus writes neither.
C18_OutputFiles ==
    /\ pc = "done" =>
        /\ WrittenNames = {"train.jsonl", "val.jsonl"}
        /\ Cardinality(WrittenNames) = 2
        /\ train_file = [name |-> "train.jsonl", state |-> "closed",
                         lines |-> JsonLines(train_data)]
        /\ val_file = [name |-> "val.jsonl", state |-> "closed",
                       lines |-> JsonLines(val_data)]
    /\ pc = "exited" => WrittenNames = {}

C18_Witness ==
    /\ pc = "done"
    /\ Len(train_data) = 1
    /\ Len(val_data) = 2
    /\ val_data[1] # val_data[2]
    /\ val_file.name = "val.jsonl"
    /\ val_file.lines = <<JsonLine(val_data[1]), JsonLine(val_data[2])>>

(***************************************************************************)
(* export_feedback.py: convert_feedback_to_chatml and the row loop of      *)
(* export_from_database, followed by prepare_data's validator on the       *)
(* exported example.                                                       *)
(***************************************************************************)
\* SYSTEM_PROMPTS.get(insight_type, ""): a non-blank prompt per known type
InsightTypes == {"TEXT_GENERATION", "HASHTAG_GENERATION", ""}

SystemPrompt(insight_type) ==
    IF insight_type = "TEXT_GENERATION" THEN <<"a">>
    ELSE IF insight_type = "HASHTAG_GENERATION" THEN <<"b">>
    ELSE <<>>

\* the keys of inputContext the exporter reads, in the order it reads them
ContextKeys == <<"keywords", "tone", "platforms", "content", "postContent">>

\* the f-string appended for a key: a non-blank label, ": " and the value
\* (the label is written by its initial; ', '.join for a list of platforms)
ContextPart(key, ctx) ==
    IF key = "keywords" THEN <<"K", ":", " ", "b">>
    ELSE IF key = "tone" THEN <<"D", ":", " ", "a">>
    ELSE IF key = "platforms"
         THEN IF ctx.platforms_list
              THEN <<"T", ":", " ", "a", ",", " ", "b">>
              ELSE <<"T", ":", " ", "a">>
    ELSE <<"P", ":", " ", "b">>

RECURSIVE ContextParts(_, _)
\* parts, built by the `if key in input_context` statements (lines 184-199)
ContextParts(ctx, k) ==
    IF k > Len(ContextKeys) THEN <<>>
    ELSE (IF ContextKeys[k] \in ctx.keys
          THEN <<ContextPart(ContextKeys[k], ctx)>> ELSE <<>>)
         \o ContextParts(ctx, k + 1)

\* user_message (lines 179-203)
UserMessage(ctx) ==
    IF ctx.t = "obj" /\ ctx.keys # {}
    THEN Join(ContextParts(ctx, 1), <<"\n", "\n">>)
    ELSE IF ctx.t = "str" /\ ctx.s # <<>> THEN ctx.s
    ELSE <<>>

\* truth value of a text column
Truthy(text) == text.t = "str" /\ text.s # <<>>

\* lines 219-228
ExportFinish(system_prompt, user_message, assistant_response) ==
    IF Len(Strip(assistant_response)) < MinAssistantLen THEN None
    ELSE Some(Example(<<Msg("system", system_prompt),
                        Msg("user", user_message),
                        Msg("assistant", assistant_response)>>))

convert_feedback_to_chatml(row) ==
    LET system_prompt == SystemPrompt(row.insightType)
        user_message == UserMessage(row.inputContext)
    IN  IF system_prompt = <<>> THEN None
        ELSE IF user_message = <<>> THEN None
        ELSE IF row.rating = "EDITED" /\ Truthy(row.editedOutput)
             THEN ExportFinish(system_prompt, user_message, row.editedOutput.s)
        ELSE IF Truthy(row.originalOutput)
             THEN ExportFinish(system_prompt, user_message, row.originalOutput.s)
        ELSE None

\* 19 characters behind a space: 20 raw characters, 19 stripped
Padded19 == <<" ">> \o Rep("a", MinAssistantLen - 1)

OriginalOutputs ==
    { TextVal("null", <<>>), TextVal("str", <<>>), TextVal("str", <<"a", "b">>),
      TextVal("str", A20), TextVal("str", Padded19) }

EditedOutputs ==
    { TextVal("null", <<>>), TextVal("str", <<>>), TextVal("str", B20),
      TextVal("str", Padded19) }

InputContexts ==
    { CtxVal("null", <<>>, {}, FALSE), CtxVal("arr", <<>>, {}, FALSE),
      CtxVal("str", <<>>, {}, FALSE), CtxVal("str", <<" ", " ">>, {}, FALSE),
      CtxVal("str", <<"b">>, {}, FALSE) }
    \cup { CtxVal("obj", <<>>, ks, FALSE) : ks \in SUBSET Range(ContextKeys) }
    \cup { CtxVal("obj", <<>>, ks, TRUE) :
               ks \in {x \in SUBSET Range(ContextKeys) : "platforms" \in x} }

Rows ==
    { Row(t, r, o, e, c) : t \in InsightTypes, r \in {"GOOD", "EDITED", "BAD"},
                           o \in OriginalOutputs, e \in EditedOutputs,
                           c \in InputContexts }

ExportInit ==
    /\ e_row \in Rows
    /\ e_pc = 0
    /\ e_example = None
    /\ e_result = Ok(<<>>)
    /\ SplitIdle
    /\ DedupIdle
    /\ ValidateIdle
    /\ PipeIdle
    /\ NormIdle
    /\ ReportIdle
    /\ OrderIdle
    /\ ClassIdle

\* example = convert_feedback_to_chatml(row)
ExportConvert ==
    /\ e_pc = 0
    /\ e_example' = convert_feedback_to_chatml(e_row)
    /\ e_pc' = 1
    /\ UNCHANGED <<e_row, e_result>>
    /\ UNCHANGED nonExportVars

\* `if example:` is false, the row is not exported
ExportSkip ==
    /\ e_pc = 1
    /\ e_example.none
    /\ e_pc' = 2
    /\ UNCHANGED <<e_row, e_example, e_result>>
    /\ UNCHANGED nonExportVars

\* the row is exported, and prepare_data validates the exported line
ExportValidate ==
    /\ e_pc = 1
    /\ ~e_example.none
    /\ e_result' = validate_chatml(e_example.ex)
    /\ e_pc' = 2
    /\ UNCHANGED <<e_row, e_example>>
    /\ UNCHANGED nonExportVars

ExportNext == ExportConvert \/ ExportSkip \/ ExportValidate

SpecExport == ExportInit /\ [][ExportNext]_vars

\* C19: every example convert_feedback_to_chatml returns (non-None), for any
\* feedback row, conforms to the Example schema: validate_chatml returns an
\* empty list of violations for it.
C19_ExportConforms ==
    (e_pc = 2 /\ ~e_example.none) => e_result = Ok(<<>>)

(***************************************************************************)
(* Two runs of main on the same input, each with classifier results of     *)
(* its own: detect_task_type and detect_language are an arbitrary tag per  *)
(* example, chosen anew in each run.                                       *)
(***************************************************************************)
MaxReportLen == 3

\* two examples with the same user and assistant text, two more examples,
\* and a record the validator rejects
ReportLines ==
    { Line("json", Example(<<Msg("system", <<"a">>), Msg("user", <<"b">>),
                             Msg("assistant", A20)>>)),
      Line("json", Example(<<Msg("user", <<"a">>), Msg("assistant", B20)>>)),
      Line("json", Example(<<Msg("system", <<"b">>), Msg("user", <<"b">>),
                             Msg("assistant", A20)>>)),
      Line("json", Example(<<Msg("user", <<"b">>), Msg("assistant", B20)>>)),
      Line("json", Example(<<Msg("assistant", A20)>>)) }

\* task_type and lang of one example (lines 239 and 248)
TagPairs == [task : TaskTypes, lang : Languages]

RECURSIVE LoadLines(_)
\* the examples load_jsonl_dir appends for a sequence of lines
LoadLines(lines) ==
    IF lines = <<>> THEN <<>>
    ELSE LET o == LineOutcome(Head(lines))
         IN  (IF o.kind = "admitted" THEN <<o.example>> ELSE <<>>)
             \o LoadLines(Tail(lines))

\* task_counter[task_type] / lang_counter[lang] after the loop
CountTags(tags, field, value) ==
    Cardinality({i \in DOMAIN tags : tags[i][field] = value})

RECURSIVE FirstSeen(_, _, _)
\* the keys of a Counter, in the order the loop inserted them
FirstSeen(tags, field, k) ==
    IF k > Len(tags) THEN <<>>
    ELSE (IF \E j \in 1..(k - 1) : tags[j][field] = tags[k][field]
          THEN <<>> ELSE <<tags[k][field]>>)
         \o FirstSeen(tags, field, k + 1)

\* the items of a Counter, in insertion order
CounterItems(tags, field) ==
    LET keys == FirstSeen(tags, field, 1)
    IN  [i \in 1..Len(keys) |->
            [tag |-> keys[i], count |-> CountTags(tags, field, keys[i])]]

\* A frequency table left in insertion order.
MostCommonUnsorted(items) == items

\* Counter.most_common(): a stable sort by decreasing count
MostCommon(items) ==
    LET Before(i, j) ==
            \/ items[i].count > items[j].count
            \/ (items[i].count = items[j].count /\ i < j)
        Rank(i) == 1 + Cardinality({j \in DOMAIN items : Before(j, i)})
    IN  [r \in DOMAIN items |-> items[CHOOSE i \in DOMAIN items : Rank(i) = r]]

\* the dictionary compute_statistics returns
compute_statistics(examples, tags) ==
    [total |-> Len(examples),
     task_types |-> MostCommon(CounterItems(tags, "task")),
     languages |-> MostCommon(CounterItems(tags, "lang"))]

RECURSIVE ExamplesAfterStatisticsDroppingUnknown(_, _)
\* A compute_statistics that removes the examples of unknown task type.
ExamplesAfterStatisticsDroppingUnknown(examples, tags) ==
    IF examples = <<>> THEN <<>>
    ELSE (IF tags[1].task = "unknown" THEN <<>> ELSE <<Head(examples)>>)
         \o ExamplesAfterStatisticsDroppingUnknown(
                Tail(examples), [i \in 1..(Len(tags) - 1) |-> tags[i + 1]])

\* the list passed to compute_statistics, after the call: the loop only
\* reads `examples` and the messages
ExamplesAfterStatistics(examples, tags) == examples

ReportInit ==
    /\ r_lines \in SeqsUpTo(ReportLines, MaxReportLen)
    /\ r_run = 1
    /\ r_pc = "load"
    /\ ReportStart
    /\ SplitIdle
    /\ DedupIdle
    /\ ValidateIdle
    /\ PipeIdle
    /\ NormIdle
    /\ ExportIdle
    /\ OrderIdle
    /\ ClassIdle

\* lines 301-309
ReportLoad ==
    /\ r_pc = "load"
    /\ r_loaded' = [r_loaded EXCEPT ![r_run] = LoadLines(r_lines)]
    /\ r_pc' = "check"
    /\ UNCHANGED <<r_lines, r_run, r_unique, r_train, r_val, r_stats, r_files>>
    /\ UNCHANGED nonReportVars

\* if not all_examples: sys.exit(1)
ReportCheckEmpty ==
    /\ r_pc = "check"
    /\ r_pc' = IF r_loaded[r_run] = <<>> THEN "exited" ELSE "dedup"
    /\ UNCHANGED <<r_lines, r_run, r_loaded, r_unique, r_train, r_val,
                   r_stats, r_files>>
    /\ UNCHANGED nonReportVars

\* all_examples = deduplicate(all_examples)
ReportDeduplicate ==
    /\ r_pc = "dedup"
    /\ r_unique' = [r_unique EXCEPT ![r_run] = deduplicate(r_loaded[r_run])]
    /\ r_pc' = "split"
    /\ UNCHANGED <<r_lines, r_run, r_loaded, r_train, r_val, r_stats, r_files>>
    /\ UNCHANGED nonReportVars

\* train_data, val_data = split_data(all_examples, train_ratio=args.train_split)
ReportSplit ==
    /\ r_pc = "split"
    /\ \E e \in 0..MaxEntropy :
         LET out == split_data(r_unique[r_run], DefaultTrainNum, DefaultSeed, e)
         IN  /\ r_train' = [r_train EXCEPT ![r_run] = out[1]]
             /\ r_val' = [r_val EXCEPT ![r_run] = out[2]]
    /\ r_pc' = "stats"
    /\ UNCHANGED <<r_lines, r_run, r_loaded, r_unique, r_stats, r_files>>
    /\ UNCHANGED nonReportVars

\* stats = compute_statistics(all_examples), with this run's classifier
ReportStatistics ==
    /\ r_pc = "stats"
    /\ \E tags \in [1..Len(r_unique[r_run]) -> TagPairs] :
         /\ r_stats' = [r_stats EXCEPT
                ![r_run] = compute_statistics(r_unique[r_run], tags)]
         /\ r_unique' = [r_unique EXCEPT
                ![r_run] = ExamplesAfterStatistics(r_unique[r_run], tags)]
    /\ r_pc' = "save"
    /\ UNCHANGED <<r_lines, r_run, r_loaded, r_train, r_val, r_files>>
    /\ UNCHANGED nonReportVars

\* lines 339-348: train.jsonl, then val.jsonl
ReportSave ==
    /\ r_pc = "save"
    /\ r_files' = [r_files EXCEPT
           ![r_run] = <<JsonLines(r_train[r_run]), JsonLines(r_val[r_run])>>]
    /\ r_pc' = "done"
    /\ UNCHANGED <<r_lines, r_run, r_loaded, r_unique, r_train, r_val, r_stats>>
    /\ UNCHANGED nonReportVars

\* the second run starts once the first has ended
ReportSecondRun ==
    /\ r_run = 1
    /\ r_pc \in {"done", "exited"}
    /\ r_run' = 2
    /\ r_pc' = "load"
    /\ UNCHANGED <<r_lines, r_loaded, r_unique, r_train, r_val, r_stats, r_files>>
    /\ UNCHANGED nonReportVars

ReportNext ==
    \/ ReportLoad
    \/ ReportCheckEmpty
    \/ ReportDeduplicate
    \/ ReportSplit
    \/ ReportStatistics
    \/ ReportSave
    \/ ReportSecondRun

SpecReport == ReportInit /\ [][ReportNext]_vars

\* C20: the classifier is used only for reporting: for two runs on the same
\* input whose classifier results differ arbitrarily, the loaded, the
\* deduplicated, the train and the validation sequences (and the files
\* written from them) are identical.
C20_TagsOnlyReported ==
    (r_run = 2 /\ r_pc \in {"done", "exited"}) =>
        /\ r_loaded[1] = r_loaded[2]
        /\ r_unique[1] = r_unique[2]
        /\ r_train[1] = r_train[2]
        /\ r_val[1] = r_val[2]
        /\ r_files[1] = r_files[2]

C20_Witness ==
    /\ r_run = 2
    /\ r_pc = "done"
    /\ Len(r_loaded[2]) = 2
    /\ Len(r_unique[2]) = 2
    /\ r_stats[1].task_types = <<[tag |-> "unknown", count |-> 2]>>
    /\ r_stats[2].task_types = <<[tag |-> "post_generation", count |-> 2]>>
    /\ r_stats[1].languages # r_stats[2].languages
    /\ r_train[1] = r_train[2]
    /\ Len(r_val[2]) = 1

RECURSIVE SumCounts(_)
SumCounts(table) ==
    IF table = <<>> THEN 0 ELSE Head(table).count + SumCounts(Tail(table))

\* run k has computed its statistics
HasStatistics(k) == (k < r_run /\ r_pc # "idle" /\ r_loaded[k] # <<>>)
                    \/ (k = r_run /\ r_pc \in {"save", "done"})

\* C21: statistics are computed over the full deduplicated set: total is the
\* number of deduplicated examples and equals len(train) + len(validation),
\* the task-type counts and the language counts each sum to total, and each
\* frequency table is ordered by non-increasing count.
C21_StatisticsOverDeduplicated ==
    \A k \in 1..2 : HasStatistics(k) =>
        /\ r_unique[k] = deduplicate(r_loaded[k])
        /\ r_stats[k].total = Len(r_unique[k])
        /\ r_stats[k].total = Len(r_train[k]) + Len(r_val[k])
        /\ SumCounts(r_stats[k].task_types) = r_stats[k].total
        /\ SumCounts(r_stats[k].languages) = r_stats[k].total
        /\ \A t \in {r_stats[k].task_types, r_stats[k].languages} :
               \A i \in DOMAIN t : \A j \in DOMAIN t :
                   i < j => t[i].count >= t[j].count

C21_Witness ==
    /\ r_run = 1
    /\ r_pc = "done"
    /\ Len(r_loaded[1]) = 3
    /\ r_stats[1].total = 3
    /\ Len(r_train[1]) = 2
    /\ r_stats[1].task_types = <<[tag |-> "post_generation", count |-> 2],
                                 [tag |-> "unknown", count |-> 1]>>
    /\ r_stats[1].languages = <<[tag |-> "unknown", count |-> 2],
                                [tag |-> "en", count |-> 1]>>

\* C22: every run on finite input ends in exactly one of two ways: success
\* with both output files completely written, or the empty-corpus abort
\* with no output file written; no input record makes the run end in any
\* other way.
C22_TwoTerminalOutcomes ==
    /\ ~(ENABLED Next) => pc \in {"done", "exited"}
    /\ pc = "done" =>
           /\ exit_code = 0
           /\ train_file.state = "closed" /\ val_file.state = "closed"
           /\ Len(train_file.lines) = Len(train_data)
           /\ Len(val_file.lines) = Len(val_data)
    /\ pc = "exited" =>
           /\ exit_code = 1
           /\ train_file.state = "absent" /\ val_file.state = "absent"

(***************************************************************************)
(* The order in which main and load_jsonl_dir read sources, files and      *)
(* lines.  A directory holds files under names that glob yields in any     *)
(* order; the origin of every loaded example is recorded beside it.        *)
(***************************************************************************)
MaxOrderLines == 2

MaxOrderTotal == 3

\* the names 10.jsonl, 9.jsonl and a.jsonl (extension written `.j`)
FileNames == { <<"1", "0", ".", "j">>, <<"9", ".", "j">>, <<"a", ".", "j">> }

\* code points of the characters of the names
CharCode(c) ==
    IF c = "." THEN 46 ELSE IF c = "0" THEN 48 ELSE IF c = "1" THEN 49
    ELSE IF c = "9" THEN 57 ELSE IF c = "a" THEN 97 ELSE 106

RECURSIVE LexLess(_, _)
\* a < b for two strings
LexLess(a, b) ==
    IF b = <<>> THEN FALSE
    ELSE IF a = <<>> THEN TRUE
    ELSE IF CharCode(Head(a)) # CharCode(Head(b))
         THEN CharCode(Head(a)) < CharCode(Head(b))
    ELSE LexLess(Tail(a), Tail(b))

\* directory.glob("*.jsonl"): the files of a directory, in any order
GlobResults ==
    UNION { {f \in [1..Cardinality(S) -> S] : Range(f) = S} : S \in SUBSET FileNames }

\* A listing used in the order glob yields it.
Unsorted(files) == files

\* sorted(...)
Sorted(files) ==
    LET Rank(i) == 1 + Cardinality({j \in DOMAIN files : LexLess(files[j], files[i])})
    IN  [r \in DOMAIN files |-> files[CHOOSE i \in DOMAIN files : Rank(i) = r]]

\* a record the loader admits and one it rejects
OrderLines ==
    { Line("json", Example(<<Msg("user", <<"b">>), Msg("assistant", B20)>>)),
      Line("json", Example(<<Msg("assistant", A20)>>)) }

Origin(source, file, line_num) ==
    [source |-> source, file |-> file, line_num |-> line_num]

OrderInit ==
    /\ o_pc = "start"
    /\ OrderStart
    /\ SplitIdle
    /\ DedupIdle
    /\ ValidateIdle
    /\ PipeIdle
    /\ NormIdle
    /\ ExportIdle
    /\ ReportIdle
    /\ ClassIdle

\* seed_data = load_jsonl_dir(seed_dir, "seed")
OrderLoadSeed ==
    /\ o_pc = "start"
    /\ o_pc' = "seed"
    /\ o_lpc' = "enter"
    /\ UNCHANGED <<o_listing, o_file, o_lineno, o_total, o_examples, o_origin,
                   o_all, o_all_origin>>
    /\ UNCHANGED nonOrderVars

\* jsonl_files = sorted(directory.glob("*.jsonl"))
OrderListFiles ==
    /\ o_lpc = "enter"
    /\ \E found \in GlobResults : o_listing' = Sorted(found)
    /\ o_lpc' = "files"
    /\ UNCHANGED <<o_pc, o_file, o_lineno, o_total, o_examples, o_origin,
                   o_all, o_all_origin>>
    /\ UNCHANGED nonOrderVars

\* for filepath in jsonl_files: open(filepath)
OrderOpenFile ==
    /\ o_lpc = "files"
    /\ o_listing # <<>>
    /\ o_file' = Head(o_listing)
    /\ o_listing' = Tail(o_listing)
    /\ o_lineno' = 0
    /\ o_lpc' = "lines"
    /\ UNCHANGED <<o_pc, o_total, o_examples, o_origin, o_all, o_all_origin>>
    /\ UNCHANGED nonOrderVars

\* one line of the file, through the body of the line loop
OrderReadLine ==
    /\ o_lpc = "lines"
    /\ o_lineno < MaxOrderLines
    /\ o_total < MaxOrderTotal
    /\ o_lineno' = o_lineno + 1
    /\ o_total' = o_total + 1
    /\ \E line \in OrderLines :
         LET o == LineOutcome(line)
         IN  IF o.kind = "admitted"
             THEN /\ o_examples' = Append(o_examples, o.example)
                  /\ o_origin' = Append(o_origin, Origin(o_pc, o_file, o_lineno + 1))
             ELSE UNCHANGED <<o_examples, o_origin>>
    /\ UNCHANGED <<o_pc, o_lpc, o_listing, o_file, o_all, o_all_origin>>
    /\ UNCHANGED nonOrderVars

\* the end of the file is reached
OrderEndFile ==
    /\ o_lpc = "lines"
    /\ o_lpc' = "files"
    /\ UNCHANGED <<o_pc, o_listing, o_file, o_lineno, o_total, o_examples,
                   o_origin, o_all, o_all_origin>>
    /\ UNCHANGED nonOrderVars

\* return examples; all_examples.extend(...); then the second load or the
\* end of loading
OrderReturn ==
    /\ o_lpc = "files"
    /\ o_listing = <<>>
    /\ o_all' = o_all \o o_examples
    /\ o_all_origin' = o_all_origin \o o_origin
    /\ o_examples' = <<>>
    /\ o_origin' = <<>>
    /\ o_file' = <<>>
    /\ o_lineno' = 0
    /\ IF o_pc = "seed"
       THEN o_pc' = "feedback" /\ o_lpc' = "enter"
       ELSE o_pc' = "loaded" /\ o_lpc' = "idle"
    /\ UNCHANGED <<o_listing, o_total>>
    /\ UNCHANGED nonOrderVars

OrderNext ==
    \/ OrderLoadSeed
    \/ OrderListFiles
    \/ OrderOpenFile
    \/ OrderReadLine
    \/ OrderEndFile
    \/ OrderReturn

SpecOrder == OrderInit /\ [][OrderNext]_vars

\* a comes before b in source-then-file-then-line order
OriginBefore(a, b) ==
    \/ (a.source = "seed" /\ b.source = "feedback")
    \/ (a.source = b.source /\ LexLess(a.file, b.file))
    \/ (a.source = b.source /\ a.file = b.file /\ a.line_num < b.line_num)

\* C23: the loaded examples are in source-then-file-then-line order: seed
\* before feedback, within a directory the files in lexicographic name
\* order, each read to completion before the next begins, and within a file
\* the admitted examples in line order.
C23_LoadOrder ==
    LET loaded == o_all_origin \o o_origin
    IN  /\ Len(o_all) = Len(o_all_origin)
        /\ Len(o_examples) = Len(o_origin)
        /\ \A i \in DOMAIN loaded : \A j \in DOMAIN loaded :
               i < j => OriginBefore(loaded[i], loaded[j])
        /\ \A i \in DOMAIN o_listing : LexLess(o_file, o_listing[i])

C23_Witness ==
    /\ o_pc = "loaded"
    /\ o_all_origin = << Origin("seed", <<"1", "0", ".", "j">>, 1),
                         Origin("seed", <<"9", ".", "j">>, 1),
                         Origin("feedback", <<"1", "0", ".", "j">>, 1) >>

\* the run has built train_data and val_data
SplitBuilt ==
    /\ pc \in {"stats", "open_train", "write_train", "open_val", "write_val", "done"}
    /\ Len(train_data) + Len(val_data) = Len(all_examples)
    /\ Range(train_data) \cup Range(val_data) = Range(all_examples)

Kw(head, tail) == [head |-> head, tail |-> tail]

\* TASK_TYPE_KEYWORDS, in the order of the dictionary
TASK_TYPE_KEYWORDS ==
    << 
       [task |-> "post_generation", keywords |-> <<
          Kw(<<"s", "o", "c", "i", "a", "l", " ", "m", "e", "d", "i", "a", " ", "p", "o", "s", "t">>, <<>>),
          Kw(<<"c", "r", "e", "a", "t", "e", " ", "a">>,
             <<"p", "o", "s", "t">>),
          Kw(<<"k", "e", "y", "w", "o", "r", "d", "s">>,
             <<"t", "o", "p", "i", "c">>)>>],
       [task |-> "hashtag_generation", keywords |-> <<
          Kw(<<"h", "a", "s", "h", "t", "a", "g">>, <<>>),
          Kw(<<"g", "e", "n", "e", "r", "a", "t", "e", " ", "h", "a", "s", "h", "t", "a", "g", "s">>, <<>>),
          Kw(<<"h", "a", "s", "h", "t", "a", "g", " ", "e", "x", "p", "e", "r", "t">>, <<>>)>>],
       [task |-> "content_variations", keywords |-> <<
          Kw(<<"v", "a", "r", "i", "a", "t", "i", "o", "n">>, <<>>),
          Kw(<<"A", "/", "B", " ", "t", "e", "s", "t", "i", "n", "g">>, <<>>),
          Kw(<<"v", "a", "r", "i", "a", "n", "t">>, <<>>)>>],
       [task |-> "sentiment_analysis", keywords |-> <<
          Kw(<<"s", "e", "n", "t", "i", "m", "e", "n", "t">>, <<>>),
          Kw(<<"a", "n", "a", "l", "y", "z", "e">>,
             <<"s", "e", "n", "t", "i", "m", "e", "n", "t">>),
          Kw(<<"e", "n", "g", "a", "g", "e", "m", "e", "n", "t", " ", "p", "o", "t", "e", "n", "t", "i", "a", "l">>, <<>>)>>],
       [task |-> "best_times", keywords |-> <<
          Kw(<<"p", "o", "s", "t", "i", "n", "g", " ", "t", "i", "m", "e", "s">>, <<>>),
          Kw(<<"b", "e", "s", "t", " ", "t", "i", "m", "e">>, <<>>),
          Kw(<<"o", "p", "t", "i", "m", "a", "l">>,
             <<"t", "i", "m", "e">>)>>],
       [task |-> "brand_voice", keywords |-> <<
          Kw(<<"b", "r", "a", "n", "d", " ", "v", "o", "i", "c", "e">>, <<>>),
          Kw(<<"b", "r", "a", "n", "d", " ", "s", "t", "y", "l", "e">>, <<>>),
          Kw(<<"a", "d", "a", "p", "t">>,
             <<"b", "r", "a", "n", "d">>)>>] >>

\* str.lower() and re.IGNORECASE, on the capitals that occur
Lower(c) ==
    IF c = "A" THEN "a" ELSE IF c = "B" THEN "b" ELSE IF c = "S" THEN "s" ELSE c

\* the literal lit stands in text at position i, letter case ignored
LitAt(lit, text, i) ==
    /\ i + Len(lit) - 1 <= Len(text)
    /\ \A k \in 1..Len(lit) : Lower(text[i + k - 1]) = Lower(lit[k])

\* re.search(kw, combined, re.IGNORECASE); `.` matches no newline
Search(kw, text) ==
    \E i \in 1..Len(text) :
        /\ LitAt(kw.head, text, i)
        /\ \/ kw.tail = <<>>
           \/ \E j \in (i + Len(kw.head))..Len(text) :
                  /\ LitAt(kw.tail, text, j)
                  /\ \A k \in (i + Len(kw.head))..(j - 1) : text[k] # "\n"

\* The roles read by a classifier that also reads the answer.
ClassifiedRolesAll == {"system", "user", "assistant"}

\* m["role"] in ("system", "user")
ClassifiedRoles == {"system", "user"}

RECURSIVE ClassifiedContents(_)
\* m.get("content", "") for the messages of those roles
ClassifiedContents(messages) ==
    IF messages = <<>> THEN <<>>
    ELSE (IF GetRole(Head(messages)).s \in ClassifiedRoles
          THEN <<GetContent(Head(messages)).s>> ELSE <<>>)
         \o ClassifiedContents(Tail(messages))

\* " ".join(...).lower()
Combined(messages) ==
    LET joined == Join(ClassifiedContents(messages), <<" ">>)
    IN  [i \in 1..Len(joined) |-> Lower(joined[i])]

RECURSIVE TaskFrom(_, _)
\* the two loops: the first task type one of whose keywords is found
TaskFrom(combined, t) ==
    IF t > Len(TASK_TYPE_KEYWORDS) THEN "unknown"
    ELSE IF \E k \in DOMAIN TASK_TYPE_KEYWORDS[t].keywords :
                Search(TASK_TYPE_KEYWORDS[t].keywords[k], combined)
         THEN TASK_TYPE_KEYWORDS[t].task
    ELSE TaskFrom(combined, t + 1)

detect_task_type(messages) == TaskFrom(Combined(messages), 1)

\* contents of the messages classified
TaskTexts ==
    { <<"x">>,
      <<"h", "a", "s", "h", "t", "a", "g">>,
      <<"S", "o", "c", "i", "a", "l", " ", "m", "e", "d", "i", "a", " ", "p", "o", "s", "t">>,
      <<"c", "r", "e", "a", "t", "e", " ", "a">>,
      <<"p", "o", "s", "t">>,
      <<"c", "r", "e", "a", "t", "e", " ", "a", "\n", "p", "o", "s", "t">>,
      <<"A", "/", "B", " ", "t", "e", "s", "t", "i", "n", "g">>,
      <<"b", "e", "s", "t", " ", "t", "i", "m", "e">> }

\* [user, assistant] and [system, user, assistant] with those contents
TaskMessages ==
    { <<Msg("system", s), Msg("user", u), Msg("assistant", a)>> :
          s \in TaskTexts, u \in TaskTexts, a \in {<<"x">>, <<"h", "a", "s", "h", "t", "a", "g">>} }
    \cup { <<Msg("user", u), Msg("assistant", a)>> :
               u \in TaskTexts, a \in TaskTexts }

TaskInit ==
    /\ c_messages \in TaskMessages
    /\ c_text = <<>>
    /\ c_pc = "call"
    /\ c_result = ""
    /\ SplitIdle
    /\ DedupIdle
    /\ ValidateIdle
    /\ PipeIdle
    /\ NormIdle
    /\ ExportIdle
    /\ ReportIdle
    /\ OrderIdle

\* task_type = detect_task_type(messages)
TaskCall ==
    /\ c_pc = "call"
    /\ c_result' = detect_task_type(c_messages)
    /\ c_pc' = "returned"
    /\ UNCHANGED <<c_messages, c_text>>
    /\ UNCHANGED nonClassVars

TaskNext == TaskCall

SpecTask == TaskInit /\ [][TaskNext]_vars

\* the system and user contents of the messages, joined by a space
SystemUserText(messages) ==
    LET picked == SelectSeq(messages, LAMBDA m : GetRole(m).s \in {"system", "user"})
    IN  Join([i \in 1..Len(picked) |-> GetContent(picked[i]).s], <<" ">>)

\* the positions, in the declared order, of the task types with a keyword
\* that matches the text
MatchingTasks(text) ==
    { t \in DOMAIN TASK_TYPE_KEYWORDS :
          \E k \in DOMAIN TASK_TYPE_KEYWORDS[t].keywords :
              Search(TASK_TYPE_KEYWORDS[t].keywords[k], text) }

\* C25: the task-type classifier returns the first task type, in the order
\* post_generation, hashtag_generation, content_variations,
\* sentiment_analysis, best_times, brand_voice, that has a pattern matching
\* the combined system and user content, and "unknown" when none matches;
\* assistant content never influences the result.
C25_FirstTaskTypeWins ==
    c_pc = "returned" =>
        LET matching == MatchingTasks(SystemUserText(c_messages))
            order == <<"post_generation", "hashtag_generation",
                       "content_variations", "sentiment_analysis",
                       "best_times", "brand_voice">>
        IN  /\ matching = {} => c_result = "unknown"
            /\ matching # {} =>
                   \E t \in matching :
                       /\ \A u \in matching : t <= u
                       /\ c_result = order[t]

C25_Witness ==
    /\ c_pc = "returned"
    /\ c_messages = <<Msg("system", <<"h", "a", "s", "h", "t", "a", "g">>),
                      Msg("user", <<"S", "o", "c", "i", "a", "l", " ", "m", "e", "d", "i", "a", " ", "p", "o", "s", "t">>),
                      Msg("assistant", <<"h", "a", "s", "h", "t", "a", "g">>)>>
    /\ c_result = "post_generation"

(***************************************************************************)
(* detect_language.  Every pattern is \b(w1|w2|...)\b, so a match is a     *)
(* maximal run of word characters equal to one of the words: the text is   *)
(* the sequence of its runs of word characters.                            *)
(***************************************************************************)
MaxWords == 3

\* LANGUAGE_PATTERNS, in the order of the dictionary
LANGUAGE_PATTERNS ==
    <<
       [lang |-> "de", words |-> Range(<<"und", "der", "die", "das", "ist", "fuer", "mit", "ein", "eine", "nicht", "wir", "auf">>)],
       [lang |-> "en", words |-> Range(<<"the", "and", "is", "for", "with", "that", "this", "are", "was", "not", "you", "your">>)],
       [lang |-> "fr", words |-> Range(<<"les", "des", "une", "est", "pour", "dans", "qui", "par", "sur", "avec", "nous", "vous">>)],
       [lang |-> "es", words |-> Range(<<"los", "las", "una", "por", "para", "con", "del", "que", "como", "mas", "nuestro">>)],
       [lang |-> "pt", words |-> Range(<<"uma", "dos", "das", "para", "com", "por", "nos", "seu", "nossa", "mais", "como">>)] >>

\* text.lower(), on the words that occur
LowerWord(w) == IF w = "The" THEN "the" ELSE IF w = "UND" THEN "und" ELSE w

\* scores[lang]: len(re.findall(pattern, text_lower))
Score(words, l) ==
    Cardinality({i \in DOMAIN words : LowerWord(words[i]) \in LANGUAGE_PATTERNS[l].words})

RECURSIVE ArgMaxLast(_, _, _)
\* A maximum that keeps the last of several equal scores.
ArgMaxLast(words, l, best) ==
    IF l > Len(LANGUAGE_PATTERNS) THEN best
    ELSE ArgMaxLast(words, l + 1,
                    IF Score(words, l) >= Score(words, best) THEN l ELSE best)

RECURSIVE ArgMax(_, _, _)
\* max(scores, key=...): the first key with the greatest score
ArgMax(words, l, best) ==
    IF l > Len(LANGUAGE_PATTERNS) THEN best
    ELSE ArgMax(words, l + 1,
                IF Score(words, l) > Score(words, best) THEN l ELSE best)

detect_language(words) ==
    IF \A l \in DOMAIN LANGUAGE_PATTERNS : Score(words, l) = 0 THEN "unknown"
    ELSE LANGUAGE_PATTERNS[ArgMax(words, 2, 1)].lang

\* words of the texts classified: German, English (one capitalised),
\* French, Spanish and Portuguese at once, Portuguese, and no language
LangWords == {"und", "the", "The", "les", "para", "uma", "x"}

LangInit ==
    /\ c_messages = <<>>
    /\ c_text \in SeqsUpTo(LangWords, MaxWords)
    /\ c_pc = "call"
    /\ c_result = ""
    /\ SplitIdle
    /\ DedupIdle
    /\ ValidateIdle
    /\ PipeIdle
    /\ NormIdle
    /\ ExportIdle
    /\ ReportIdle
    /\ OrderIdle

\* lang = detect_language(assistant_text)
LangCall ==
    /\ c_pc = "call"
    /\ c_result' = detect_language(c_text)
    /\ c_pc' = "returned"
    /\ UNCHANGED <<c_messages, c_text>>
    /\ UNCHANGED nonClassVars

LangNext == LangCall

SpecLang == LangInit /\ [][LangNext]_vars

\* the declared order of the languages
LangOrder == <<"de", "en", "fr", "es", "pt">>

\* number of words of the text that are indicator words of language l
Matches(l) ==
    Cardinality({i \in DOMAIN c_text :
                    LowerWord(c_text[i]) \in LANGUAGE_PATTERNS[l].words})

\* C26: the language classifier returns the language with the highest
\* indicator-word match count, "unknown" exactly when all five counts are
\* zero, and on a tie the tied language that comes first in the order
\* de, en, fr, es, pt.
C26_HighestCountFirstTie ==
    c_pc = "returned" =>
        /\ c_result = "unknown" <=> \A l \in 1..5 : Matches(l) = 0
        /\ c_result # "unknown" =>
               \E l \in 1..5 :
                   /\ c_result = LangOrder[l]
                   /\ LANGUAGE_PATTERNS[l].lang = LangOrder[l]
                   /\ \A m \in 1..5 : Matches(m) <= Matches(l)
                   /\ \A m \in 1..(l - 1) : Matches(m) < Matches(l)

C26_Witness ==
    /\ c_pc = "returned"
    /\ c_text = <<"para", "The", "les">>
    /\ c_result = "en"

\* the characters of a string that are not whitespace, in order
NonSpace(s) == SelectSeq(s, LAMBDA c : ~IsSpace(c))

\* no two horizontal whitespace characters in a row, no three newlines in a
\* row, no whitespace at either end
CleanWhitespace(s) ==
    /\ \A i \in 1..(Len(s) - 1) : ~(IsHSpace(s[i]) /\ IsHSpace(s[i + 1]))
    /\ \A i \in 1..(Len(s) - 2) : ~(s[i] = "\n" /\ s[i + 1] = "\n" /\ s[i + 2] = "\n")
    /\ s # <<>> => (~IsSpace(s[1]) /\ ~IsSpace(s[Len(s)]))

\* C27 as stated: the output of normalize_text has no run of two or more
\* horizontal whitespace characters, no run of three or more newlines and
\* no leading or trailing whitespace, and the sequence of non-whitespace
\* characters is unchanged.
C27_NonSpaceUnchanged ==
    n_pc >= 1 => /\ CleanWhitespace(n_once)
                 /\ NonSpace(n_once) = NonSpace(n_text)

\* C27 (amended): the output of normalize_text has no run of two or more
\* horizontal whitespace characters, no run of three or more newlines and
\* no leading or trailing whitespace, and its sequence of non-whitespace
\* characters is that of the NFC form of the input.
C27_CleanWhitespace ==
    n_pc >= 1 => /\ CleanWhitespace(n_once)
                 /\ NonSpace(n_once) = NonSpace(NFC(n_text))

C27_Witness ==
    /\ n_pc = 1
    /\ n_text = <<"\t", "a", " ", "\t", "e", "^">>
    /\ n_once = <<"a", " ", "E">>

\* split_data has returned
PastSplit ==
    pc \in {"stats", "open_train", "write_train", "open_val", "write_val", "done"}

\* C28: on every run that passes the empty-corpus check, the deduplicated
\* set passed to the splitter has at least one example and the train output
\* is non-empty; a set of exactly one example goes to train whole and
\* leaves validation empty.
C28_TrainNeverEmpty ==
    /\ PastCheck => Len(all_examples) >= 1
    /\ PastSplit => Len(train_data) >= 1
    /\ (PastSplit /\ Len(all_examples) = 1) =>
           (train_data = all_examples /\ val_data = <<>>)

C28_Witness ==
    /\ pc = "done"
    /\ train_split = 5
    /\ Len(seed_data) + Len(feedback_data) = 2
    /\ Len(all_examples) = 1
    /\ train_data = all_examples
    /\ val_data = <<>>
    /\ val_file.lines = <<>>

\* the ordered (role, content) pairs of the user and assistant messages
RoleContentPairs(x) ==
    LET picked == SelectSeq(x.messages.items,
                            LAMBDA m : GetRole(m).s \in {"user", "assistant"})
    IN  [i \in 1..Len(picked) |-> <<GetRole(picked[i]).s, GetContent(picked[i]).s>>]

\* C29: the deduplicator drops an example only if an earlier example has
\* the identical ordered sequence of (role, content) pairs over its user and
\* assistant messages: with the digest injective, two examples whose user
\* and assistant messages differ in content, in message boundaries or in
\* role assignment never get the same deduplication key.
C29_KeySeparatesExamples ==
    /\ \A j \in 1..Min(d_k - 1, Len(d_examples)) :
           j \notin Range(d_kept) =>
               \E i \in 1..(j - 1) :
                   RoleContentPairs(d_examples[i]) = RoleContentPairs(d_examples[j])
    /\ \A x \in Range(d_examples) : \A y \in Range(d_examples) :
           HashOf(x) = HashOf(y) => RoleContentPairs(x) = RoleContentPairs(y)

\* C30: split_data leaves its input unchanged: after the call the
\* deduplicated sequence has the same elements in the same order, so the
\* statistics computed after the split are computed over exactly the
\* deduplicated set in its first-seen order.
C30_SplitLeavesInput ==
    /\ PastSplit => all_examples = deduplicate(seed_data \o feedback_data)
    /\ pc \in {"open_train", "write_train", "open_val", "write_val", "done"} =>
           stats = [total |-> Len(deduplicate(seed_data \o feedback_data))]

C30_Witness ==
    /\ pc = "done"
    /\ Len(all_examples) = 3
    /\ train_data \o val_data # all_examples
    /\ all_examples = deduplicate(seed_data \o feedback_data)
    /\ stats.total = 3

====
